---------------------------- MODULE Spec2Model ----------------------------
(***************************************************************************)
(* Storefront backend (Express server, JSON-file store): the cart pricing  *)
(* calculator, order creation, the payment confirmation handlers, and the  *)
(* poster, product and cart endpoints; the order in which the server runs  *)
(* the handlers of concurrent requests; the product routes of the older    *)
(* server (src/server.js); and the browser's ShoppingCart (src/README.md). *)
(*                                                                         *)
(* Conventions of the model                                                *)
(*  - Money is an integer number of hundredths of a rupee, so that the     *)
(*    code's subtotal * value / 100 is exact; Rupees(n) is n rupees.       *)
(*  - A JavaScript value that may be undefined is a sequence of length 0   *)
(*    (undefined) or 1 (the value): Absent and Some(v).                    *)
(*  - A JSON object is a record; {...a, ...b} is Spread(a, b).             *)
(*  - Time stamps (created_at, updated_at) and log lines are left out.     *)
(***************************************************************************)
EXTENDS Integers, Sequences, FiniteSets, TLC

VARIABLES
    posters,    \* data/posters.json  : sequence of numbers (null: Absent)
    products,   \* data/products.json : sequence of products
    offers,     \* data/offers.json   : sequence of offers
    orders,     \* data/orders.json   : sequence of orders
    customers,  \* data/customers.json: sequence of customers
    carts,      \* data/cart_<session>.json, by session: the cart saved
    env,        \* process.env as read at start-up
    res,        \* the last result: of a handler (HTTP response) or of a call
    requests,   \* by client: the handler of its request, suspended or done
    shoppingCart \* ShoppingCart.cart of the browser client

vars ==
    <<posters, products, offers, orders, customers, carts, env, res, requests,
      shoppingCart>>

files == <<posters, products, offers, orders, customers, carts>>

-----------------------------------------------------------------------------
(* Values *)

Absent == <<>>

Some(v) == <<v>>

\* JavaScript truthiness of an optional number: undefined and 0 are falsy.
TruthyNum(o) == o # Absent /\ o[1] # 0

\* JavaScript truthiness of an optional string: undefined and "" are falsy.
TruthyStr(o) == o # Absent /\ o[1] # ""

\* {...a, ...b}: the fields of b overwrite those of a.
Spread(a, b) == b @@ a

Rupees(n) == n * 100

Max(a, b) == IF a >= b THEN a ELSE b

MinOf(S) == CHOOSE x \in S : \A y \in S : x <= y

-----------------------------------------------------------------------------
(* Bounds of the model *)

\* Longest list of line items in a priced cart.
MaxItems == 2

\* Largest number of offers in the offers file.
MaxOffers == 2

\* Longest posters list: the list as first written and one more.
MaxPosters == 7

\* Largest number of products: the catalogue and one more.
MaxProducts == 3

-----------------------------------------------------------------------------
(* The catalogue and the offers the model draws from *)

Catalogue ==
    << [id |-> "poster-1", type |-> "poster", title |-> "Poster",
        price |-> [M |-> Rupees(300), L |-> Rupees(333)],
        stock |-> [M |-> 5, L |-> 5]],
       [id |-> "polaroid-1", type |-> "polaroid", title |-> "Polaroid",
        price |-> [M |-> Rupees(500)],
        stock |-> [M |-> 1]] >>

\* Offers as stored: conditions.minSubtotal is 0 when the file gives none
\* (the code reads it as minSubtotal || 0).
OfferPool ==
    << [id |-> "FLAT50", label |-> "Flat 50", type |-> "flat",
        value |-> Rupees(50), active |-> TRUE, minSubtotal |-> Rupees(500)],
       [id |-> "TEN", label |-> "10 percent", type |-> "percentage",
        value |-> 10, active |-> TRUE, minSubtotal |-> 0],
       [id |-> "BIG", label |-> "Flat 2000", type |-> "flat",
        value |-> Rupees(2000), active |-> TRUE, minSubtotal |-> 0],
       [id |-> "OLD", label |-> "Half off", type |-> "percentage",
        value |-> 50, active |-> FALSE, minSubtotal |-> 0],
       [id |-> "TWENTY", label |-> "20 percent", type |-> "percentage",
        value |-> 20, active |-> TRUE, minSubtotal |-> Rupees(1000)],
       [id |-> "BOGO", label |-> "Buy one get one", type |-> "bogo",
        value |-> 1, active |-> TRUE, minSubtotal |-> 0] >>

\* The offers files: the offers of the pool taken in order, at most MaxOffers.
OfferFiles ==
    { SelectSeq(OfferPool, LAMBDA o : o.id \in S) :
        S \in { T \in SUBSET { OfferPool[i].id : i \in 1..Len(OfferPool) } :
                    Cardinality(T) <= MaxOffers } }

\* The quantities of a line item: none of them is refused by the code.
Quantities == {-1, 0, 1, 2}

\* Line items of a request: product ids and sizes that resolve, a size that
\* is not in the price map, and a product id that is not in the catalogue.
ItemPool ==
    { [product_id |-> "poster-1", size |-> s, quantity |-> q] :
        s \in {"M", "L"}, q \in Quantities }
    \cup { [product_id |-> "polaroid-1", size |-> "M", quantity |-> q] :
        q \in {1, 2} }
    \cup { [product_id |-> "polaroid-1", size |-> "L", quantity |-> 1],
           [product_id |-> "no-such-product", size |-> "M", quantity |-> 1] }

ItemLists == UNION { [1..n -> ItemPool] : n \in 0..MaxItems }

-----------------------------------------------------------------------------
(* calculateCartTotals *)

FREE_SHIPPING_MIN == 999

SHIPPING_FEE == 79

\* products.find((p) => p.id === id): the index of the first match, 0 if none.
FindProduct(productList, id) ==
    LET hits == { i \in 1..Len(productList) : productList[i].id = id }
    IN  IF hits = {} THEN 0 ELSE MinOf(hits)

\* product.price[size] is truthy: the size is a key and the price is not 0.
HasPrice(product, size) ==
    size \in DOMAIN product.price /\ product.price[size] # 0

\* Number(item.quantity || 1)
Quantity(item) == IF item.quantity = 0 THEN 1 ELSE item.quantity

\* The error the loop body throws for one item, "" if none.
ItemError(productList, item) ==
    LET k == FindProduct(productList, item.product_id)
    IN  IF k = 0 THEN "Invalid product"
        ELSE IF ~HasPrice(productList[k], item.size) THEN "Invalid size"
        ELSE ""

\* Mutant: the quantity is dropped.
LineTotal_IgnoresQuantity(unitPrice, item) == unitPrice

LineTotal(unitPrice, item) == unitPrice * Quantity(item)

EnrichItem(productList, item) ==
    LET product == productList[FindProduct(productList, item.product_id)]
        unitPrice == product.price[item.size]
    IN  [product_id |-> product.id,
         title |-> product.title,
         size |-> item.size,
         quantity |-> Quantity(item),
         unit_price |-> unitPrice,
         line_total |-> LineTotal(unitPrice, item)]

RECURSIVE SumLineTotals(_)
SumLineTotals(enriched) ==
    IF enriched = <<>> THEN 0
    ELSE Head(enriched).line_total + SumLineTotals(Tail(enriched))

\* Mutant: the minSubtotal condition is not looked at.
OfferQualifies_Always(offer, subtotal) == TRUE

OfferQualifies(offer, subtotal) == subtotal >= offer.minSubtotal

\* What one pass of the offers loop adds to discount.
OfferDiscount(offer, subtotal) ==
    (IF offer.type = "percentage" /\ OfferQualifies(offer, subtotal)
        THEN (subtotal * offer.value) \div 100 ELSE 0)
    + (IF offer.type = "flat" /\ OfferQualifies(offer, subtotal)
        THEN offer.value ELSE 0)

RECURSIVE SumDiscounts(_, _)
SumDiscounts(offerList, subtotal) ==
    IF offerList = <<>> THEN 0
    ELSE OfferDiscount(Head(offerList), subtotal)
            + SumDiscounts(Tail(offerList), subtotal)

ActiveOffers(offerList) == SelectSeq(offerList, LAMBDA o : o.active # FALSE)

\* Mutant: a subtotal of exactly the threshold pays the fee.
Shipping_StrictThreshold(subtotal) ==
    IF subtotal > Rupees(FREE_SHIPPING_MIN) THEN 0 ELSE Rupees(SHIPPING_FEE)

Shipping(subtotal) ==
    IF subtotal >= Rupees(FREE_SHIPPING_MIN) THEN 0 ELSE Rupees(SHIPPING_FEE)

\* Mutant: the total is not clamped at 0.
Total_Unclamped(subtotal, discount, shipping) ==
    subtotal - discount + shipping

Total(subtotal, discount, shipping) == Max(subtotal - discount + shipping, 0)

\* The indices of the items for which the loop throws.
BadItems(productList, items) ==
    { i \in 1..Len(items) : ItemError(productList, items[i]) # "" }

\* What calculateCartTotals returns for items that all resolve.
PriceItems(items, offerList, productList) ==
    LET enriched == [i \in 1..Len(items) |-> EnrichItem(productList, items[i])]
        subtotal == SumLineTotals(enriched)
        discount == SumDiscounts(ActiveOffers(offerList), subtotal)
        shipping == Shipping(subtotal)
    IN  [thrown |-> "",
         subtotal |-> subtotal,
         discount |-> discount,
         shipping |-> shipping,
         total |-> Total(subtotal, discount, shipping),
         items |-> enriched,
         offers |-> ActiveOffers(offerList)]

\* Mutant: an item that does not resolve is skipped instead of thrown for.
calculateCartTotals_SkipsUnresolved(items, offerList, productList) ==
    PriceItems(SelectSeq(items, LAMBDA item : ItemError(productList, item) = ""),
               offerList, productList)

\* The result of calculateCartTotals(items, offers): thrown is "" when it
\* returns, and the kind of the message when it throws, which it does at
\* the first item that does not resolve.
calculateCartTotals(items, offerList, productList) ==
    LET bad == BadItems(productList, items)
    IN  IF bad # {}
        THEN [thrown |-> ItemError(productList, items[MinOf(bad)])]
        ELSE PriceItems(items, offerList, productList)

-----------------------------------------------------------------------------
(* The files as ensureFile and the first requests find them *)

\* A list of JSON numbers: each element is Some(n); a null is Absent.
Numbers(ns) == [i \in 1..Len(ns) |-> Some(ns[i])]

\* ensureFile(POSTERS_FILE, [1, 3, 5, 4, 7, 9])
InitialPosters == Numbers(<<1, 3, 5, 4, 7, 9>>)

\* The sessions that save a cart: x-session-id absent reads as 'default'.
Sessions == {"default", "s1"}

\* No cart file exists.
NoCarts == [s \in Sessions |-> Absent]

-----------------------------------------------------------------------------
(* Configuration *)

\* process.env: an unset variable is "".
EnvNone ==
    [ADMIN_API_KEY |-> "change-me", UPI_VPA |-> "", PAYTM_MID |-> "",
     PAYTM_MERCHANT_KEY |-> ""]

EnvAll ==
    [ADMIN_API_KEY |-> "change-me", UPI_VPA |-> "shop@upi",
     PAYTM_MID |-> "MID1", PAYTM_MERCHANT_KEY |-> "merchant-key"]

Environments == {EnvNone, EnvAll}

\* The outcomes of what a handler calls outside the process: the write of
\* the collection file the request is about (of a cart file, for a cart),
\* the write of the customers file, the QR code library, the Paytm gateway.
WorldOk ==
    [saved |-> TRUE, savedCustomers |-> TRUE, qr |-> TRUE, gateway |-> "S"]

Worlds == { WorldOk, [WorldOk EXCEPT !.qr = FALSE],
            [WorldOk EXCEPT !.gateway = "F"] }

-----------------------------------------------------------------------------
(* Shared helpers of the handlers *)

Response(op, status, error) ==
    [op |-> op, status |-> status, error |-> error, payment |-> Absent]

\* orders.findIndex((o) => o.id === orderId): 0 stands for -1.
FindOrder(orderList, orderId) ==
    LET hits == { i \in 1..Len(orderList) : orderList[i].id = orderId }
    IN  IF hits = {} THEN 0 ELSE MinOf(hits)

\* The id of the next order, ORD-<Date.now()>-<random>: one that no earlier
\* order was given. Orders are never deleted, so the number of orders counts
\* the creations.
OrderIdPool == <<"ORD-1", "ORD-2">>

NewOrderId(orderList) == OrderIdPool[Len(orderList) + 1]

-----------------------------------------------------------------------------
(* The payment adapters *)

\* buildUpiLink: '' (Absent) when no payee id is configured.
buildUpiLink(amount, orderId) ==
    IF env.UPI_VPA = "" THEN Absent
    ELSE Some([pa |-> env.UPI_VPA, am |-> amount, tn |-> orderId])

\* generateUpiPayload: the QR library's failure leaves qrCode empty.
generateUpiPayload(order, world) ==
    LET upiLink == buildUpiLink(order.total, order.id)
    IN  IF upiLink = Absent THEN [upiLink |-> Absent, qrCode |-> Absent]
        ELSE IF world.qr THEN [upiLink |-> upiLink, qrCode |-> upiLink]
        ELSE [upiLink |-> upiLink, qrCode |-> Absent]

\* Mutant: a refusal of the gateway is answered with the mock transaction.
createPaytmTransaction_MockOnRefusal(orderId, amount, world) ==
    IF env.PAYTM_MID # "" /\ env.PAYTM_MERCHANT_KEY # "" /\ world.gateway = "S"
    THEN [thrown |-> FALSE, mode |-> "staging",
          txnToken |-> <<"gateway-token", orderId>>, amount |-> amount]
    ELSE [thrown |-> FALSE, mode |-> "mock",
          txnToken |-> <<"mock-token", orderId>>, amount |-> amount]

\* Mutant: without the merchant id and key the transaction is refused.
createPaytmTransaction_NeedsCredentials(orderId, amount, world) ==
    IF env.PAYTM_MID = "" \/ env.PAYTM_MERCHANT_KEY = ""
    THEN [thrown |-> TRUE]
    ELSE IF world.gateway = "S"
    THEN [thrown |-> FALSE, mode |-> "staging",
          txnToken |-> <<"gateway-token", orderId>>, amount |-> amount]
    ELSE [thrown |-> TRUE]

\* createPaytmTransaction: thrown is TRUE when the gateway refuses.
createPaytmTransaction(orderId, amount, world) ==
    IF env.PAYTM_MID = "" \/ env.PAYTM_MERCHANT_KEY = ""
    THEN [thrown |-> FALSE, mode |-> "mock",
          txnToken |-> <<"mock-token", orderId>>, amount |-> amount]
    ELSE IF world.gateway = "S"
    THEN [thrown |-> FALSE, mode |-> "staging",
          txnToken |-> <<"gateway-token", orderId>>, amount |-> amount]
    ELSE [thrown |-> TRUE]

-----------------------------------------------------------------------------
(* POST /api/orders (the handler registered first) *)

\* Mutant: the methods of the handler registered second are let through.
PAYMENT_METHODS_WithRazorpay ==
    {"upi", "paytm", "cod", "razorpay", "bank_transfer"}

PAYMENT_METHODS == {"upi", "paytm", "cod"}

CustomerComplete(c) ==
    c.firstName # "" /\ c.lastName # "" /\ c.email # "" /\ c.phone # ""

AddressComplete(a) ==
    a.line1 # "" /\ a.city # "" /\ a.state # "" /\ a.pincode # ""

\* The 400 answer of the validation at the head of the handler, "" if the
\* body passes. customer and shippingAddress are optional records, items is
\* the list of line items (an absent list reads as the empty one).
ValidationError(body) ==
    IF body.customer = Absent \/ body.shippingAddress = Absent
            \/ Len(body.items) = 0
        THEN "Missing required order information"
    ELSE IF ~CustomerComplete(body.customer[1])
        THEN "Missing required customer information"
    ELSE IF ~AddressComplete(body.shippingAddress[1])
        THEN "Missing required shipping information"
    ELSE IF body.paymentMethod \notin PAYMENT_METHODS
        THEN "Invalid payment method"
    ELSE ""

InitialPaymentStatus(paymentMethod) ==
    IF paymentMethod = "cod" THEN "cod" ELSE "pending"

NewOrder(orderId, body, totals) ==
    [id |-> orderId,
     customer |-> [name |-> <<body.customer[1].firstName,
                              body.customer[1].lastName>>,
                   email |-> body.customer[1].email,
                   phone |-> body.customer[1].phone],
     shipping_address |-> body.shippingAddress[1],
     items |-> totals.items,
     offers_applied |-> [i \in 1..Len(totals.offers) |->
                            [id |-> totals.offers[i].id,
                             label |-> totals.offers[i].label,
                             type |-> totals.offers[i].type]],
     subtotal |-> totals.subtotal,
     discount |-> totals.discount,
     shipping |-> totals.shipping,
     total |-> totals.total,
     currency |-> "INR",
     payment_method |-> body.paymentMethod,
     payment_status |-> InitialPaymentStatus(body.paymentMethod),
     status |-> "pending",
     upi_transaction_id |-> Absent,
     paytm_transaction_id |-> Absent,
     paid_amount |-> Absent,
     paytm_response |-> Absent]

\* Mutant: the customer of every order is appended.
AddCustomer_Always(customerList, order) ==
    Append(customerList,
           [name |-> order.customer.name,
            email |-> order.customer.email,
            phone |-> order.customer.phone])

\* The customers file after the order: one more record for an unknown email.
AddCustomer(customerList, order) ==
    IF \E i \in 1..Len(customerList) : customerList[i].email = order.customer.email
    THEN customerList
    ELSE Append(customerList,
                [name |-> order.customer.name,
                 email |-> order.customer.email,
                 phone |-> order.customer.phone])

\* The stock code of the handler registered second: each line's quantity is
\* taken off the stock of its product and size, not going below 0.
RECURSIVE TakeFromStock(_, _)
TakeFromStock(productList, items) ==
    IF items = <<>> THEN productList
    ELSE LET orderItem == Head(items)
             productIndex == FindProduct(productList, orderItem.product_id)
             product == productList[productIndex]
         IN  IF productIndex # 0 /\ orderItem.size \in DOMAIN product.stock
             THEN TakeFromStock(
                    [productList EXCEPT ![productIndex].stock[orderItem.size] =
                        Max(0, @ - orderItem.quantity)],
                    Tail(items))
             ELSE TakeFromStock(productList, Tail(items))

\* Mutant: the order's lines are taken off the stock.
StockAfterOrder_SecondRegistration(productList, order) ==
    TakeFromStock(productList, order.items)

\* The products file after the order was stored: the handler that runs
\* reads it to price the cart and writes the orders and customers files
\* only.
StockAfterOrder(productList, order) == productList

PostOrders(body, world) ==
    LET op == "POST /api/orders"
        invalid == ValidationError(body)
        totals == calculateCartTotals(body.items, offers, products)
        newOrder == NewOrder(NewOrderId(orders), body, totals)
        paytm == createPaytmTransaction(newOrder.id, newOrder.total, world)
        accepted == invalid = "" /\ totals.thrown = "" /\ world.saved
    IN  /\ accepted => Len(orders) < Len(OrderIdPool)
        /\ UNCHANGED <<posters, offers, carts, env, requests, shoppingCart>>
        /\ products' = IF accepted THEN StockAfterOrder(products, newOrder)
                       ELSE products
        /\ IF invalid # ""
           THEN /\ res' = Response(op, 400, invalid)
                /\ UNCHANGED <<orders, customers>>
           ELSE IF totals.thrown # ""
           THEN /\ res' = Response(op, 500, "Unable to create order")
                /\ UNCHANGED <<orders, customers>>
           ELSE IF ~world.saved
           THEN /\ res' = Response(op, 500, "Unable to save order")
                /\ UNCHANGED <<orders, customers>>
           ELSE /\ orders' = Append(orders, newOrder)
                /\ customers' = IF world.savedCustomers
                                THEN AddCustomer(customers, newOrder)
                                ELSE customers
                /\ res' =
                    IF body.paymentMethod = "upi"
                    THEN [Response(op, 201, "") EXCEPT !.payment =
                            Some(generateUpiPayload(newOrder, world))]
                    ELSE IF body.paymentMethod = "paytm"
                    THEN IF paytm.thrown
                         THEN Response(op, 502, "Unable to create Paytm transaction")
                         ELSE [Response(op, 201, "") EXCEPT !.payment = Some(paytm)]
                    ELSE Response(op, 201, "")

-----------------------------------------------------------------------------
(* updateOrder and the handlers that call it *)

\* The orders of a list, the arguments an updater can be called with.
OrdersIn(orderList) == { orderList[i] : i \in 1..Len(orderList) }

\* updateOrder(orderId, updater): thrown when no order has the id, else the
\* list with the first such order replaced by updater[order]. The result of
\* saveOrders is not looked at: a failed write leaves the file as it was.
updateOrder(orderList, orderId, updater, world) ==
    LET idx == FindOrder(orderList, orderId)
    IN  IF idx = 0
        THEN [thrown |-> TRUE, orders |-> orderList]
        ELSE [thrown |-> FALSE,
              orders |-> IF world.saved
                         THEN [orderList EXCEPT ![idx] = updater[orderList[idx]]]
                         ELSE orderList]

\* Mutant: any key that is sent is let through.
IsAdmin_AnyKey(key) == key # Absent /\ key[1] # ""

\* requireAdmin lets the request pass.
IsAdmin(key) == key # Absent /\ key[1] # "" /\ key[1] = env.ADMIN_API_KEY

\* PUT /api/orders/:id (the handler registered first): the body is spread
\* over the order.
PutOrder(req, world) ==
    LET op == "PUT /api/orders/:id"
        r == updateOrder(orders, req.id,
                         [current \in OrdersIn(orders) |->
                             Spread(current, req.updates)], world)
    IN  /\ UNCHANGED <<posters, products, offers, customers, carts, env,
                     requests, shoppingCart>>
        /\ IF ~IsAdmin(req.key)
           THEN /\ res' = Response(op, 401, "Unauthorized")
                /\ UNCHANGED orders
           ELSE IF r.thrown
           THEN /\ res' = Response(op, 500, "Order not found")
                /\ UNCHANGED orders
           ELSE /\ res' = Response(op, 200, "")
                /\ orders' = r.orders

\* Mutant: the amount of the request is not looked at.
UpiPaidAmount_AlwaysTotal(amount, current) == Some(current.total)

\* paid_amount: amount || current.total
UpiPaidAmount(amount, current) ==
    IF TruthyNum(amount) THEN amount ELSE Some(current.total)

\* The updater of POST /payments/upi/confirm.
UpiPaid(current, body) ==
    [current EXCEPT !.payment_status = "paid",
                    !.status = "confirmed",
                    !.upi_transaction_id = body.transactionId,
                    !.paid_amount = UpiPaidAmount(body.amount, current)]

\* POST /payments/upi/confirm
UpiConfirm(body, world) ==
    LET op == "POST /payments/upi/confirm"
        r == updateOrder(orders, body.orderId[1],
                         [current \in OrdersIn(orders) |->
                             UpiPaid(current, body)], world)
    IN  /\ UNCHANGED <<posters, products, offers, customers, carts, env,
                     requests, shoppingCart>>
        /\ IF ~TruthyStr(body.orderId) \/ ~TruthyStr(body.transactionId)
           THEN /\ res' = Response(op, 400, "Missing orderId or transactionId")
                /\ UNCHANGED orders
           ELSE IF r.thrown
           THEN /\ res' = Response(op, 500, "Order not found")
                /\ UNCHANGED orders
           ELSE /\ res' = Response(op, 200, "")
                /\ orders' = r.orders

\* A Paytm checksum: what PaytmChecksum.generateSignature makes of a body
\* and a key. verifySignature accepts a signature made of the same body
\* with the same key, and no other.
Sign(body, key) == [signed |-> body, key |-> key]

VerifySignature(body, key, signature) == signature = Sign(body, key)

\* a || b || c || d over optional values: the first that is there.
FirstTruthy(options) ==
    LET there == { i \in 1..Len(options) : options[i] # Absent }
    IN  IF there = {} THEN Absent ELSE options[MinOf(there)]

\* The signature of a webhook request: x-checksum, x-paytm-signature,
\* head.signature, payload.signature, in this order.
WebhookSignature(req) ==
    FirstTruthy(<<req.xChecksum, req.xPaytmSignature, req.headSignature,
                  req.payloadSignature>>)

\* Mutant: a signature is asked for and not verified.
SignatureAccepted_PresenceOnly(req) == WebhookSignature(req) # Absent

\* The webhook's signature check passes.
SignatureAccepted(req) ==
    LET signature == WebhookSignature(req)
    IN  /\ signature # Absent
        /\ env.PAYTM_MERCHANT_KEY # ""
        /\ VerifySignature(req.body, env.PAYTM_MERCHANT_KEY, signature[1])

\* String.prototype.toLowerCase on the result codes of the model.
ToLowerCase(str) ==
    CASE str = "TXN_SUCCESS" -> "txn_success"
      [] str = "TXN_FAILURE" -> "txn_failure"
      [] str = "PENDING" -> "pending"
      [] OTHER -> str

\* statusMap[resultInfo.resultStatus] || current.status
WebhookStatus(resultStatus, current) ==
    IF resultStatus = Some("TXN_SUCCESS") THEN "confirmed"
    ELSE IF resultStatus = Some("TXN_FAILURE") THEN "failed"
    ELSE IF resultStatus = Some("PENDING") THEN "pending"
    ELSE current.status

\* paymentStatus || current.payment_status
WebhookPaymentStatus(resultStatus, current) ==
    IF resultStatus = Some("TXN_SUCCESS") THEN "paid"
    ELSE IF TruthyStr(resultStatus) THEN ToLowerCase(resultStatus[1])
    ELSE current.payment_status

\* The updater of POST /payments/paytm/webhook.
WebhookUpdate(current, body) ==
    [current EXCEPT !.status = WebhookStatus(body.resultStatus, current),
                    !.payment_status =
                        WebhookPaymentStatus(body.resultStatus, current),
                    !.paytm_transaction_id = body.txnId,
                    !.paid_amount = IF TruthyNum(body.txnAmount)
                                    THEN body.txnAmount
                                    ELSE current.paid_amount,
                    !.paytm_response = Some(body)]

\* POST /payments/paytm/webhook
PaytmWebhook(req, world) ==
    LET op == "POST /payments/paytm/webhook"
        body == req.body
        r == updateOrder(orders, body.orderId[1],
                         [current \in OrdersIn(orders) |->
                             WebhookUpdate(current, body)], world)
    IN  /\ UNCHANGED <<posters, products, offers, customers, carts, env,
                     requests, shoppingCart>>
        /\ IF ~SignatureAccepted(req)
           THEN /\ res' = Response(op, 400, "Invalid signature")
                /\ UNCHANGED orders
           ELSE IF ~TruthyStr(body.orderId)
           THEN /\ res' = Response(op, 400, "Missing orderId")
                /\ UNCHANGED orders
           ELSE IF r.thrown
           THEN /\ res' = Response(op, 500, "Unable to process webhook")
                /\ UNCHANGED orders
           ELSE /\ res' = Response(op, 200, "")
                /\ orders' = r.orders

-----------------------------------------------------------------------------
(* The poster endpoints *)

\* The numerals a request can carry, with Number() of each ('' is 0).
Numerals ==
    ("1" :> 1) @@ ("7" :> 7) @@ ("8" :> 8) @@ ("42" :> 42) @@ ("" :> 0)

\* Number(raw): Absent stands for NaN, which JSON stores as null.
ToNumber(raw) ==
    IF raw \in DOMAIN Numerals THEN Some(Numerals[raw]) ELSE Absent

\* Mutant: the position of the last occurrence is given.
IndexOf_LastOccurrence(list, key) ==
    LET hits == { i \in 1..Len(list) : list[i] = key }
    IN  IF hits = {} THEN -1 ELSE (CHOOSE i \in hits : \A j \in hits : j <= i) - 1

\* posters.indexOf(key): the position, counted from 0, of the first element
\* strictly equal to key, and -1 when there is none.
IndexOf(list, key) ==
    LET hits == { i \in 1..Len(list) : list[i] = key }
    IN  IF hits = {} THEN -1 ELSE MinOf(hits) - 1

\* GET /api/search?key=
GetSearch(query) ==
    LET op == "GET /api/search"
        key == ToNumber(query.key[1])
    IN  /\ UNCHANGED <<posters, products, offers, orders, customers, carts, env,
                     requests, shoppingCart>>
        /\ res' = IF query.key = Absent
                  THEN Response(op, 400, "Missing query parameter: key")
                  ELSE IF key = Absent
                  THEN Response(op, 400, "key must be a number")
                  ELSE Spread(Response(op, 200, ""),
                              [index |-> IndexOf(posters, key)])

\* posters.push(Number(key))
PushPoster(list, key) == Append(list, key)

\* Mutant: only the first occurrence of the key is removed.
RemovePoster_FirstOnly(list, key) ==
    LET hits == { i \in 1..Len(list) : list[i] = key }
    IN  IF hits = {} THEN list
        ELSE SubSeq(list, 1, MinOf(hits) - 1)
                \o SubSeq(list, MinOf(hits) + 1, Len(list))

\* loadPosters().filter((value) => value !== key)
RemovePoster(list, key) == SelectSeq(list, LAMBDA value : value # key)

\* POST /api/posters: the key is not checked to be a number.
PostPosters(req, world) ==
    LET op == "POST /api/posters"
        list == PushPoster(posters, ToNumber(req.key[1]))
        stored == IsAdmin(req.apiKey) /\ req.key # Absent /\ world.saved
    IN  /\ stored => Len(posters) < MaxPosters
        /\ UNCHANGED <<products, offers, orders, customers, carts, env,
                     requests, shoppingCart>>
        /\ IF ~IsAdmin(req.apiKey)
           THEN /\ res' = Response(op, 401, "Unauthorized")
                /\ UNCHANGED posters
           ELSE IF req.key = Absent
           THEN /\ res' = Response(op, 400, "Missing key")
                /\ UNCHANGED posters
           ELSE IF ~world.saved
           THEN /\ res' = Response(op, 500, "Unable to save")
                /\ UNCHANGED posters
           ELSE /\ res' = Spread(Response(op, 200, ""), [list |-> list])
                /\ posters' = list

\* DELETE /api/posters?key=
DeletePosters(req, world) ==
    LET op == "DELETE /api/posters"
        key == ToNumber(req.key[1])
        list == RemovePoster(posters, key)
    IN  /\ UNCHANGED <<products, offers, orders, customers, carts, env,
                     requests, shoppingCart>>
        /\ IF ~IsAdmin(req.apiKey)
           THEN /\ res' = Response(op, 401, "Unauthorized")
                /\ UNCHANGED posters
           ELSE IF req.key = Absent
           THEN /\ res' = Response(op, 400, "Missing query parameter: key")
                /\ UNCHANGED posters
           ELSE IF key = Absent
           THEN /\ res' = Response(op, 400, "key must be a number")
                /\ UNCHANGED posters
           ELSE IF ~world.saved
           THEN /\ res' = Response(op, 500, "Unable to save")
                /\ UNCHANGED posters
           ELSE /\ res' = Spread(Response(op, 200, ""), [list |-> list])
                /\ posters' = list

-----------------------------------------------------------------------------
(* POST /api/payment/verify: registered once, after the GET catch-all *)

\* The handler asks for the four fields of the body and checks none of
\* them: the order named is stored as paid and confirmed.
PaymentVerify(body, world) ==
    LET op == "POST /api/payment/verify"
        complete == /\ TruthyStr(body.orderId)
                    /\ TruthyStr(body.razorpay_payment_id)
                    /\ TruthyStr(body.razorpay_order_id)
                    /\ TruthyStr(body.razorpay_signature)
        orderIndex == FindOrder(orders, body.orderId[1])
        order == Spread(orders[orderIndex],
                        [payment_status |-> "paid", status |-> "confirmed",
                         payment_id |-> body.razorpay_payment_id])
    IN  /\ UNCHANGED <<posters, products, offers, customers, carts, env,
                     requests, shoppingCart>>
        /\ IF ~complete
           THEN /\ res' = Response(op, 400,
                                  "Missing required payment verification data")
                /\ UNCHANGED orders
           ELSE IF orderIndex = 0
           THEN /\ res' = Response(op, 404, "Order not found")
                /\ UNCHANGED orders
           ELSE IF ~world.saved
           THEN /\ res' = Response(op, 500,
                                  "Unable to update order payment status")
                /\ UNCHANGED orders
           ELSE /\ res' = Response(op, 200, "")
                /\ orders' = [orders EXCEPT ![orderIndex] = order]

-----------------------------------------------------------------------------
(* The admin's product endpoints *)

PRODUCT_TYPES == {"poster", "polaroid"}

\* products.findIndex((p) => p.id === id): 0 stands for -1.
FindProductIndex(productList, id) ==
    LET hits == { i \in 1..Len(productList) : productList[i].id = id }
    IN  IF hits = {} THEN 0 ELSE MinOf(hits)

\* `${productData.type}-${Date.now()}`, for the clock readings of the model.
GeneratedId(type, now) ==
    IF type = "poster"
    THEN IF now = 1 THEN "poster-t1" ELSE "poster-t2"
    ELSE IF now = 1 THEN "polaroid-t1" ELSE "polaroid-t2"

\* The clock readings Date.now() gives a create: two creates can read the
\* same millisecond.
ClockReadings == {1, 2}

\* newProduct of POST /api/products, with the fields the model keeps.
NewProduct(body, now) ==
    [id |-> IF TruthyStr(body.id) THEN body.id[1]
            ELSE GeneratedId(body.type[1], now),
     type |-> body.type[1],
     title |-> body.title[1],
     price |-> body.price[1],
     stock |-> IF body.stock # Absent THEN body.stock[1]
               ELSE [M |-> 0, L |-> 0, XL |-> 0]]

\* POST /api/products
PostProducts(req, now, world) ==
    LET op == "POST /api/products"
        body == req.body
        newProduct == NewProduct(body, now)
        complete == /\ TruthyStr(body.title) /\ TruthyStr(body.type)
                    /\ body.price # Absent
        stored == /\ IsAdmin(req.apiKey) /\ complete
                  /\ body.type[1] \in PRODUCT_TYPES
                  /\ FindProductIndex(products, newProduct.id) = 0
                  /\ world.saved
    IN  /\ stored => Len(products) < MaxProducts
        /\ UNCHANGED <<posters, offers, orders, customers, carts, env,
                       requests, shoppingCart>>
        /\ IF ~IsAdmin(req.apiKey)
           THEN /\ res' = Response(op, 401, "Unauthorized")
                /\ UNCHANGED products
           ELSE IF ~complete
           THEN /\ res' = Response(op, 400,
                                  "Missing required fields: title, type, price")
                /\ UNCHANGED products
           ELSE IF body.type[1] \notin PRODUCT_TYPES
           THEN /\ res' = Response(op, 400,
                                  "Type must be either \"poster\" or \"polaroid\"")
                /\ UNCHANGED products
           ELSE IF FindProductIndex(products, newProduct.id) # 0
           THEN /\ res' = Response(op, 400, "Product with this ID already exists")
                /\ UNCHANGED products
           ELSE IF ~world.saved
           THEN /\ res' = Response(op, 500, "Unable to save product")
                /\ UNCHANGED products
           ELSE /\ res' = Spread(Response(op, 201, ""), [product |-> newProduct])
                /\ products' = Append(products, newProduct)

\* Mutant: the id of the path is set before the body is spread, so an id
\* of the body wins.
UpdatedProduct_BodyIdWins(product, updateData, id) ==
    Spread(Spread(product, [id |-> id]), updateData)

\* { ...products[productIndex], ...updateData, id }
UpdatedProduct(product, updateData, id) ==
    Spread(Spread(product, updateData), [id |-> id])

\* PUT /api/products/:id
PutProducts(req, world) ==
    LET op == "PUT /api/products/:id"
        productIndex == FindProductIndex(products, req.id)
        updatedProduct ==
            UpdatedProduct(products[productIndex], req.body, req.id)
    IN  /\ UNCHANGED <<posters, offers, orders, customers, carts, env,
                       requests, shoppingCart>>
        /\ IF ~IsAdmin(req.apiKey)
           THEN /\ res' = Response(op, 401, "Unauthorized")
                /\ UNCHANGED products
           ELSE IF productIndex = 0
           THEN /\ res' = Response(op, 404, "Product not found")
                /\ UNCHANGED products
           ELSE IF ~world.saved
           THEN /\ res' = Response(op, 500, "Unable to update product")
                /\ UNCHANGED products
           ELSE /\ res' = Spread(Response(op, 200, ""),
                                 [product |-> updatedProduct])
                /\ products' = [products EXCEPT ![productIndex] = updatedProduct]

\* products.splice(productIndex, 1)
Splice(list, index) ==
    SubSeq(list, 1, index - 1) \o SubSeq(list, index + 1, Len(list))

\* DELETE /api/products/:id
DeleteProducts(req, world) ==
    LET op == "DELETE /api/products/:id"
        productIndex == FindProductIndex(products, req.id)
    IN  /\ UNCHANGED <<posters, offers, orders, customers, carts, env,
                       requests, shoppingCart>>
        /\ IF ~IsAdmin(req.apiKey)
           THEN /\ res' = Response(op, 401, "Unauthorized")
                /\ UNCHANGED products
           ELSE IF productIndex = 0
           THEN /\ res' = Response(op, 404, "Product not found")
                /\ UNCHANGED products
           ELSE IF ~world.saved
           THEN /\ res' = Response(op, 500, "Unable to delete product")
                /\ UNCHANGED products
           ELSE /\ res' = Spread(Response(op, 200, ""),
                                 [deletedProduct |-> products[productIndex]])
                /\ products' = Splice(products, productIndex)

-----------------------------------------------------------------------------
(* The admin's order list and the cart *)

\* orders.sort by created_at, newest first: the orders in the reverse of
\* the order of the file, which is the order of creation.
NewestFirst(list) == [i \in 1..Len(list) |-> list[Len(list) + 1 - i]]

\* GET /api/orders, with the default limit and offset.
GetOrders(req) ==
    LET op == "GET /api/orders"
        listed == IF TruthyStr(req.status)
                  THEN SelectSeq(orders, LAMBDA o : o.status = req.status[1])
                  ELSE orders
    IN  /\ UNCHANGED <<posters, products, offers, orders, customers, carts, env,
                     requests, shoppingCart>>
        /\ res' = IF ~IsAdmin(req.apiKey)
                  THEN Response(op, 401, "Unauthorized")
                  ELSE Spread(Response(op, 200, ""),
                              [orders |-> NewestFirst(listed),
                               total |-> Len(listed)])

\* POST /api/cart: the result of writeJson is not looked at.
PostCart(req, world) ==
    LET op == "POST /api/cart"
        sessionId == IF TruthyStr(req.sessionId) THEN req.sessionId[1]
                     ELSE "default"
    IN  /\ UNCHANGED <<posters, products, offers, orders, customers, env,
                     requests, shoppingCart>>
        /\ IF req.cart = Absent
           THEN /\ res' = Response(op, 400, "Cart must be an array")
                /\ UNCHANGED carts
           ELSE /\ res' = Response(op, 200, "")
                /\ carts' = IF world.saved
                            THEN [carts EXCEPT ![sessionId] = req.cart]
                            ELSE carts

-----------------------------------------------------------------------------
(* Requests *)

Alice == [firstName |-> "Alice", lastName |-> "A",
          email |-> "alice@example.com", phone |-> "111"]

Bob == [firstName |-> "Bob", lastName |-> "B",
        email |-> "bob@example.com", phone |-> "222"]

Home == [line1 |-> "1 Main St", line2 |-> "", city |-> "Pune",
         state |-> "MH", pincode |-> "411001"]

OrderBody(customer, address, method, items) ==
    [customer |-> customer, shippingAddress |-> address,
     paymentMethod |-> method, items |-> items]

\* Checkout requests that differ in the cart only.
PricingBodies ==
    { OrderBody(Some(Alice), Some(Home), "cod", items) : items \in ItemLists }

\* Carts of the checkout requests: one that resolves, and ones in which a
\* product id or a size does not resolve, after a valid item or alone.
CartOk == <<[product_id |-> "poster-1", size |-> "M", quantity |-> 2]>>

CartUnknownProduct ==
    <<[product_id |-> "poster-1", size |-> "M", quantity |-> 1],
      [product_id |-> "no-such-product", size |-> "M", quantity |-> 1]>>

CartUnknownSize ==
    <<[product_id |-> "poster-1", size |-> "M", quantity |-> 1],
      [product_id |-> "polaroid-1", size |-> "L", quantity |-> 1]>>

CartOnlyUnknown ==
    <<[product_id |-> "no-such-product", size |-> "M", quantity |-> 1]>>

Carts == {CartOk, CartUnknownProduct, CartUnknownSize, CartOnlyUnknown, <<>>}

\* req.body.paymentMethod: "" when the request gives none.
MethodsSent == {"upi", "paytm", "cod", "razorpay", "bank_transfer", ""}

\* A record with one field emptied.
Without(record, fields) ==
    { [record EXCEPT ![f] = ""] : f \in fields }

CustomersSent ==
    {Absent, Some(Alice), Some(Bob)}
    \cup { Some(c) : c \in Without(Alice, {"firstName", "lastName", "email", "phone"}) }

AddressesSent ==
    {Absent, Some(Home)}
    \cup { Some(a) : a \in Without(Home, {"line1", "city", "state", "pincode"}) }

\* The checkout requests: complete ones with every method and cart, and
\* ones whose customer or address is missing or lacks one field.
OrderBodies ==
    { OrderBody(Some(Alice), Some(Home), m, cart) :
        m \in MethodsSent, cart \in Carts }
    \cup { OrderBody(Some(Bob), Some(Home), m, CartOk) : m \in {"upi", "cod"} }
    \cup { OrderBody(c, Some(Home), "cod", CartOk) : c \in CustomersSent }
    \cup { OrderBody(Some(Alice), a, "cod", CartOk) : a \in AddressesSent }
    \cup { OrderBody(Absent, Absent, "razorpay", CartUnknownProduct) }

\* The order ids a request names: that of the first order, and one that no
\* order has. The second order is named by no request: it stands for the
\* other orders of the file.
OrderIdsSent == {OrderIdPool[1], "ORD-404"}

UpiBodies ==
    { [orderId |-> o, transactionId |-> t, amount |-> a] :
        o \in {Absent} \cup { Some(id) : id \in OrderIdsSent },
        t \in {Absent, Some("UPI-TXN-1")},
        a \in {Absent, Some(0), Some(Rupees(500))} }

\* The bodies of the gateway's webhook: every result code, with and without
\* an amount, for the first order; and one for no order and for no id.
WebhookBodies ==
    { [orderId |-> Some(OrderIdPool[1]), resultStatus |-> rs, txnAmount |-> a,
       txnId |-> Some("PTM-1")] :
        rs \in {Absent, Some("TXN_SUCCESS"), Some("TXN_FAILURE"), Some("PENDING")},
        a \in {Absent, Some(Rupees(679))} }
    \cup { [orderId |-> o, resultStatus |-> Some("TXN_SUCCESS"),
            txnAmount |-> Some(Rupees(679)), txnId |-> Some("PTM-1")] :
            o \in {Absent, Some("ORD-404")} }

\* The signatures sent with a body: the merchant's, one made with another
\* key, one made with no key, and the merchant's for another body.
SignaturesSent(body) ==
    { Sign(body, "merchant-key"), Sign(body, "attacker-key"), Sign(body, ""),
      Sign([body EXCEPT !.resultStatus = Some("TXN_FAILURE")], "merchant-key") }

\* Webhook requests: no signature; each signature as x-checksum; the
\* merchant's in each of the three places read after it; and a forged
\* x-checksum before the merchant's payload.signature.
WebhookRequests ==
    UNION { LET none == [body |-> body, xChecksum |-> Absent,
                         xPaytmSignature |-> Absent, headSignature |-> Absent,
                         payloadSignature |-> Absent]
                good == Some(Sign(body, "merchant-key"))
            IN  {none,
                 [none EXCEPT !.xPaytmSignature = good],
                 [none EXCEPT !.headSignature = good],
                 [none EXCEPT !.payloadSignature = good],
                 [none EXCEPT !.xChecksum = Some(Sign(body, "attacker-key")),
                              !.payloadSignature = good]}
                \cup { [none EXCEPT !.xChecksum = Some(sig)] :
                        sig \in SignaturesSent(body) }
          : body \in WebhookBodies }

\* The bodies of the admin's order update: a status, a payment status, and
\* an id that no order was created with.
PutRequests ==
    { [key |-> k, id |-> id, updates |-> u] :
        k \in {Absent, Some("guess"), Some("change-me")},
        id \in OrderIdsSent,
        u \in { [status |-> "shipped"], [payment_status |-> "refunded"],
                [id |-> "ORD-9"] } }

-----------------------------------------------------------------------------
(* The pricing specification: carts priced against every offers file *)

\* The clients whose requests the server handles at the same time.
Clients == {"c1", "c2"}

\* No request was received yet.
NoRequests == [c \in Clients |-> [pc |-> "idle"]]

InitialResult == Response("", 0, "")

InitPricing ==
    /\ posters = InitialPosters
    /\ carts = NoCarts
    /\ products = Catalogue
    /\ offers \in OfferFiles
    /\ orders = <<>>
    /\ customers = <<>>
    /\ env = EnvNone
    /\ requests = NoRequests
    /\ shoppingCart = <<>>
    /\ res = InitialResult

\* A call of calculateCartTotals(items, loadOffers()) on the files as
\* they are at the start.
Calculate ==
    /\ res = InitialResult
    /\ \E items \in ItemLists :
        res' = [op |-> "calculateCartTotals", args |-> items,
                result |-> calculateCartTotals(items, offers, products)]
    /\ UNCHANGED <<posters, products, offers, orders, customers, carts, env,
                     requests, shoppingCart>>

\* The first checkout.
Checkout ==
    /\ res = InitialResult
    /\ \E body \in PricingBodies : PostOrders(body, WorldOk)

\* Each behaviour prices one cart: by the calculator alone, or by a checkout.
NextPricing == Calculate \/ Checkout

SpecPricing == InitPricing /\ [][NextPricing]_vars

-----------------------------------------------------------------------------
(* The checkout specification: POST /api/orders with every request *)

Init ==
    /\ posters = InitialPosters
    /\ carts = NoCarts
    /\ products = Catalogue
    /\ offers = <<OfferPool[1]>>
    /\ orders = <<>>
    /\ customers = <<>>
    /\ env \in Environments
    /\ requests = NoRequests
    /\ shoppingCart = <<>>
    /\ res = InitialResult

CreateOrder == \E body \in OrderBodies, world \in Worlds : PostOrders(body, world)

Next == CreateOrder

Spec == Init /\ [][Next]_vars

-----------------------------------------------------------------------------
(* The payments specification: orders are created, then confirmed, reported
   by the gateway and updated by the admin, in any order *)

PaymentBodies ==
    { OrderBody(Some(Alice), Some(Home), "upi", CartOk),
      OrderBody(Some(Bob), Some(Home), "cod", CartOk) }

PlaceOrder == \E body \in PaymentBodies : PostOrders(body, WorldOk)

ConfirmUpi == \E body \in UpiBodies : UpiConfirm(body, WorldOk)

ReceiveWebhook == \E req \in WebhookRequests : PaytmWebhook(req, WorldOk)

AdminUpdate == \E req \in PutRequests : PutOrder(req, WorldOk)

NextPayments == PlaceOrder \/ ConfirmUpi \/ ReceiveWebhook \/ AdminUpdate

SpecPayments == Init /\ [][NextPayments]_vars

-----------------------------------------------------------------------------
(* The webhook specification: orders are created and reported by the
   gateway, with every webhook request *)

NextWebhook == PlaceOrder \/ ReceiveWebhook

SpecWebhook == Init /\ [][NextWebhook]_vars

-----------------------------------------------------------------------------
(* The posters specification: the list is searched, added to and deleted
   from *)

\* ?key= of a search or delete, and the key of a body: numerals, a text
\* that is no number, the empty text, and none.
KeysSent == {Absent, Some("7"), Some("42"), Some("1"), Some("8"), Some("abc"),
             Some("")}

SearchQueries == { [key |-> k] : k \in KeysSent }

PosterRequests ==
    { [apiKey |-> a, key |-> k] :
        a \in {Absent, Some("change-me")},
        k \in {Absent, Some("7"), Some("8"), Some("abc")} }

Search == \E query \in SearchQueries : GetSearch(query)

AddPoster == \E req \in PosterRequests : PostPosters(req, WorldOk)

RemovePosters == \E req \in PosterRequests : DeletePosters(req, WorldOk)

NextPosters == Search \/ AddPoster \/ RemovePosters

SpecPosters == Init /\ [][NextPosters]_vars

-----------------------------------------------------------------------------
(* The admin specification: every endpoint behind requireAdmin, called
   with and without the admin key, on files that hold an order *)

\* A configuration with an admin key of its own.
EnvOwnKey == [EnvNone EXCEPT !.ADMIN_API_KEY = "s3cret"]

\* The x-api-key headers sent: none, the default key, which is not the
\* configured one, and the configured key.
ApiKeysSent == {Absent, Some("change-me"), Some("s3cret")}

\* The order of the orders file at start-up: one that a checkout stored.
StoredOrder ==
    NewOrder(OrderIdPool[1], OrderBody(Some(Alice), Some(Home), "cod", CartOk),
             calculateCartTotals(CartOk, <<OfferPool[1]>>, Catalogue))

InitAdmin ==
    /\ posters = InitialPosters
    /\ carts = NoCarts
    /\ products = Catalogue
    /\ offers = <<OfferPool[1]>>
    /\ orders = <<StoredOrder>>
    /\ customers = AddCustomer(<<>>, StoredOrder)
    /\ env = EnvOwnKey
    /\ requests = NoRequests
    /\ shoppingCart = <<>>
    /\ res = InitialResult

AdminPosterRequests ==
    { [apiKey |-> a, key |-> Some("8")] : a \in ApiKeysSent }

\* Bodies of a product create: with an id of its own, with an id the
\* catalogue has, with no id, and with no title.
ProductBodies ==
    LET new == [id |-> Some("poster-2"), type |-> Some("poster"),
                title |-> Some("Second poster"),
                price |-> Some([M |-> Rupees(250)]), stock |-> Absent]
    IN  { new, [new EXCEPT !.id = Some("poster-1")], [new EXCEPT !.id = Absent],
          [new EXCEPT !.title = Absent] }

ProductCreates == { [apiKey |-> a, body |-> b] : a \in ApiKeysSent, b \in ProductBodies }

\* Updates of a product: of its price, and of its id.
ProductUpdates ==
    { [apiKey |-> a, id |-> id, body |-> b] :
        a \in ApiKeysSent,
        id \in {"poster-1", "no-such-product"},
        b \in { [price |-> [M |-> Rupees(350), L |-> Rupees(333)]],
                [id |-> "polaroid-1"] } }

ProductDeletes ==
    { [apiKey |-> a, id |-> id] :
        a \in ApiKeysSent, id \in {"polaroid-1", "no-such-product"} }

OrderListRequests ==
    { [apiKey |-> a, status |-> st] :
        a \in ApiKeysSent, st \in {Absent, Some("shipped")} }

OrderUpdates ==
    { [key |-> a, id |-> id, updates |-> [status |-> "shipped"]] :
        a \in ApiKeysSent, id \in OrderIdsSent }

AdminAddPoster == \E req \in AdminPosterRequests : PostPosters(req, WorldOk)

AdminDeletePoster == \E req \in AdminPosterRequests : DeletePosters(req, WorldOk)

AdminCreateProduct ==
    \E req \in ProductCreates, now \in ClockReadings :
        PostProducts(req, now, WorldOk)

AdminUpdateProduct == \E req \in ProductUpdates : PutProducts(req, WorldOk)

AdminDeleteProduct == \E req \in ProductDeletes : DeleteProducts(req, WorldOk)

AdminListOrders == \E req \in OrderListRequests : GetOrders(req)

AdminUpdateOrder == \E req \in OrderUpdates : PutOrder(req, WorldOk)

NextAdmin ==
    \/ AdminAddPoster
    \/ AdminDeletePoster
    \/ AdminCreateProduct
    \/ AdminUpdateProduct
    \/ AdminDeleteProduct
    \/ AdminListOrders
    \/ AdminUpdateOrder

SpecAdmin == InitAdmin /\ [][NextAdmin]_vars

-----------------------------------------------------------------------------
(* The storage specification: the mutating requests, with writes that
   succeed and writes that fail *)

\* The write of the collection fails; the write of the customers fails.
StorageWorlds ==
    { WorldOk, [WorldOk EXCEPT !.saved = FALSE],
      [WorldOk EXCEPT !.savedCustomers = FALSE] }

\* One request of each kind that passes every check of its handler once
\* the first order is stored.
StorageUpiBodies ==
    { body \in UpiBodies :
        /\ body.orderId = Some(OrderIdPool[1])
        /\ body.transactionId # Absent
        /\ body.amount = Absent }

StorageWebhooks ==
    { req \in WebhookRequests :
        /\ req.xChecksum = Some(Sign(req.body, "merchant-key"))
        /\ req.body.orderId = Some(OrderIdPool[1])
        /\ req.body.resultStatus = Some("TXN_SUCCESS")
        /\ req.body.txnAmount # Absent }

StoragePuts ==
    { req \in PutRequests :
        /\ req.key = Some("change-me")
        /\ req.id = OrderIdPool[1]
        /\ req.updates = [status |-> "shipped"] }

CartRequests ==
    { [sessionId |-> sid, cart |-> c] :
        sid \in {Absent, Some("s1")}, c \in {Absent, Some(CartOk)} }

StoreOrder ==
    \E body \in PaymentBodies, world \in StorageWorlds : PostOrders(body, world)

StoreUpiConfirmation ==
    \E body \in StorageUpiBodies, world \in StorageWorlds : UpiConfirm(body, world)

StoreWebhook ==
    \E req \in StorageWebhooks, world \in StorageWorlds : PaytmWebhook(req, world)

StoreAdminUpdate ==
    \E req \in StoragePuts, world \in StorageWorlds : PutOrder(req, world)

SaveCart ==
    \E req \in CartRequests, world \in StorageWorlds : PostCart(req, world)

NextStorage ==
    \/ StoreOrder
    \/ StoreUpiConfirmation
    \/ StoreWebhook
    \/ StoreAdminUpdate
    \/ SaveCart

SpecStorage == Init /\ [][NextStorage]_vars

-----------------------------------------------------------------------------
(* The shop specification: every handler that writes the orders or the
   products file, with the server configured *)

\* Bodies of POST /api/payment/verify: for the first order and for none,
\* with a signature nobody made and with none.
VerifyBodies ==
    { [orderId |-> Some(o), razorpay_payment_id |-> Some("pay_1"),
       razorpay_order_id |-> Some("order_1"), razorpay_signature |-> sig] :
        o \in OrderIdsSent, sig \in {Absent, Some("made-up")} }

InitShop ==
    /\ posters = InitialPosters
    /\ carts = NoCarts
    /\ products = Catalogue
    /\ offers = <<OfferPool[1]>>
    /\ orders = <<>>
    /\ customers = <<>>
    /\ env = EnvAll
    /\ requests = NoRequests
    /\ shoppingCart = <<>>
    /\ res = InitialResult

\* The admin's product requests are those sent with the configured key.
NextShop ==
    \/ \E body \in PaymentBodies : PostOrders(body, WorldOk)
    \/ \E body \in StorageUpiBodies : UpiConfirm(body, WorldOk)
    \/ \E req \in StorageWebhooks : PaytmWebhook(req, WorldOk)
    \/ \E req \in StoragePuts : PutOrder(req, WorldOk)
    \/ \E body \in VerifyBodies : PaymentVerify(body, WorldOk)
    \/ \E req \in ProductCreates, now \in ClockReadings :
            /\ req.apiKey = Some(env.ADMIN_API_KEY)
            /\ PostProducts(req, now, WorldOk)
    \/ \E req \in ProductUpdates :
            /\ req.apiKey = Some(env.ADMIN_API_KEY)
            /\ PutProducts(req, WorldOk)
    \/ \E req \in ProductDeletes :
            /\ req.apiKey = Some(env.ADMIN_API_KEY)
            /\ DeleteProducts(req, WorldOk)

SpecShop == InitShop /\ [][NextShop]_vars

-----------------------------------------------------------------------------
(* Concurrent requests: the process runs one handler at a time, from the
   request or from the await it was suspended at, up to its next await or
   its answer. File reads and writes are synchronous (readFileSync,
   writeFileSync); the awaits of POST /api/orders are those of the payment
   adapters, after both saves. The handlers that call updateOrder await
   nothing. *)

\* Mutant: the handler saves, when it resumes, the list it loaded.
OrdersAfterAwait_SavesLoaded(orderList, locals) == locals.orders

\* The orders file after POST /api/orders resumed from its await: the
\* handler holds the list it loaded and writes nothing more.
OrdersAfterAwait(orderList, locals) == orderList

\* Some handler is suspended.
Suspended == \E c \in Clients : requests[c].pc = "awaiting"

\* POST /api/orders from the request up to the await of its payment
\* adapter, or up to its answer when it awaits nothing: the checks, the
\* pricing, and the load, push and save of the order and of the customer.
\* overlapped notes that another handler was suspended meanwhile.
PostOrdersUntilAwait(client, body, world) ==
    LET op == "POST /api/orders"
        invalid == ValidationError(body)
        totals == calculateCartTotals(body.items, offers, products)
        newOrder == NewOrder(NewOrderId(orders), body, totals)
        loaded == Append(orders, newOrder)
        stored == invalid = "" /\ totals.thrown = "" /\ world.saved
        awaits == stored /\ body.paymentMethod \in {"upi", "paytm"}
        answer == IF invalid # "" THEN Response(op, 400, invalid)
                  ELSE IF totals.thrown # ""
                  THEN Response(op, 500, "Unable to create order")
                  ELSE IF ~world.saved
                  THEN Response(op, 500, "Unable to save order")
                  ELSE Response(op, 201, "")
        locals == [pc |-> IF awaits THEN "awaiting" ELSE "answered",
                   status |-> IF awaits THEN 0 ELSE answer.status,
                   orders |-> loaded, newOrder |-> newOrder,
                   overlapped |-> Suspended]
    IN  /\ requests[client].pc = "idle"
        /\ stored => Len(orders) < Len(OrderIdPool)
        /\ UNCHANGED <<posters, offers, carts, env, shoppingCart>>
        /\ products' = IF stored THEN StockAfterOrder(products, newOrder)
                       ELSE products
        /\ orders' = IF stored THEN loaded ELSE orders
        /\ customers' = IF stored /\ world.savedCustomers
                        THEN AddCustomer(customers, newOrder)
                        ELSE customers
        /\ res' = IF awaits THEN res ELSE answer
        /\ requests' =
            [c \in Clients |->
                IF c = client THEN locals
                ELSE IF requests[c].pc = "awaiting"
                THEN [requests[c] EXCEPT !.overlapped = TRUE]
                ELSE requests[c]]

\* POST /api/orders from its await to its answer.
PostOrdersAfterAwait(client, world) ==
    LET op == "POST /api/orders"
        locals == requests[client]
        newOrder == locals.newOrder
        paytm == createPaytmTransaction(newOrder.id, newOrder.total, world)
        answer ==
            IF newOrder.payment_method = "upi"
            THEN [Response(op, 201, "") EXCEPT !.payment =
                    Some(generateUpiPayload(newOrder, world))]
            ELSE IF paytm.thrown
            THEN Response(op, 502, "Unable to create Paytm transaction")
            ELSE [Response(op, 201, "") EXCEPT !.payment = Some(paytm)]
    IN  /\ locals.pc = "awaiting"
        /\ UNCHANGED <<posters, products, offers, customers, carts, env,
                       shoppingCart>>
        /\ orders' = OrdersAfterAwait(orders, locals)
        /\ res' = answer
        /\ requests' = [requests EXCEPT ![client].pc = "answered",
                                        ![client].status = answer.status]

\* The checkouts sent at the same time: one of each method.
ConcurrentBodies ==
    { OrderBody(Some(Alice), Some(Home), "upi", CartOk),
      OrderBody(Some(Bob), Some(Home), "paytm", CartOk),
      OrderBody(Some(Bob), Some(Home), "cod", CartOk) }

\* The admin's update sent while the payment is confirmed: of the notes.
ConcurrentPuts ==
    { [key |-> Some("change-me"), id |-> OrderIdPool[1],
       updates |-> [notes |-> "gift"]] }

NextConcurrent ==
    \/ \E client \in Clients, body \in ConcurrentBodies :
            PostOrdersUntilAwait(client, body, WorldOk)
    \/ \E client \in Clients, world \in Worlds :
            PostOrdersAfterAwait(client, world)
    \/ \E body \in StorageUpiBodies : UpiConfirm(body, WorldOk)
    \/ \E req \in ConcurrentPuts : PutOrder(req, WorldOk)

SpecConcurrent == InitShop /\ [][NextConcurrent]_vars

-----------------------------------------------------------------------------
(* The browser's ShoppingCart (src/README.md). An entry keeps product_id,
   size and quantity; title and price are only looked at for being there.
   saveCart posts the cart and does not change it. *)

\* Largest quantity, and smallest below zero, an entry is followed to.
MaxQuantity == 3

\* cart.findIndex(item => item.product_id === product_id &&
\* item.size === size): 0 stands for -1.
FindCartItem(list, product_id, size) ==
    LET hits == { i \in 1..Len(list) :
                    list[i].product_id = product_id /\ list[i].size = size }
    IN  IF hits = {} THEN 0 ELSE MinOf(hits)

\* The result of a ShoppingCart method: error is the message thrown.
Returned(op, error) == Response(op, 0, error)

\* addItem
AddItem(product_id, title, size, quantity, price) ==
    LET op == "ShoppingCart.addItem"
        existingItemIndex == FindCartItem(shoppingCart, product_id, size)
        added ==
            IF existingItemIndex # 0
            THEN [shoppingCart EXCEPT ![existingItemIndex].quantity =
                                        @ + quantity]
            ELSE Append(shoppingCart,
                        [product_id |-> product_id, size |-> size,
                         quantity |-> quantity])
    IN  /\ \A i \in 1..Len(added) : added[i].quantity <= MaxQuantity
        /\ UNCHANGED <<posters, products, offers, orders, customers, carts, env,
                       requests>>
        /\ IF \/ ~TruthyStr(title) \/ ~TruthyNum(price)
              \/ product_id = "" \/ size = "" \/ quantity = 0
           THEN /\ res' = Returned(op, "Missing required product information")
                /\ UNCHANGED shoppingCart
           ELSE IF quantity < 1
           THEN /\ res' = Returned(op, "Quantity must be at least 1")
                /\ UNCHANGED shoppingCart
           ELSE /\ res' = Returned(op, "")
                /\ shoppingCart' = added

\* cart.filter(item => !(item.product_id === product_id &&
\* item.size === size))
WithoutCartItem(list, product_id, size) ==
    SelectSeq(list, LAMBDA item :
                ~(item.product_id = product_id /\ item.size = size))

\* removeItem
RemoveItem(product_id, size) ==
    /\ UNCHANGED <<posters, products, offers, orders, customers, carts, env,
                   requests>>
    /\ res' = Returned("ShoppingCart.removeItem", "")
    /\ shoppingCart' = WithoutCartItem(shoppingCart, product_id, size)

\* updateItemQuantity
UpdateItemQuantity(product_id, size, quantity) ==
    LET op == "ShoppingCart.updateItemQuantity"
        itemIndex == FindCartItem(shoppingCart, product_id, size)
    IN  /\ UNCHANGED <<posters, products, offers, orders, customers, carts, env,
                       requests>>
        /\ IF itemIndex = 0
           THEN /\ res' = Returned(op, "Item not found in cart")
                /\ UNCHANGED shoppingCart
           ELSE IF quantity < 1
           THEN /\ res' = Returned(op, "")
                /\ shoppingCart' = WithoutCartItem(shoppingCart, product_id, size)
           ELSE /\ res' = Returned(op, "")
                /\ shoppingCart' =
                        [shoppingCart EXCEPT ![itemIndex].quantity = quantity]

\* clearCart
ClearCart ==
    /\ UNCHANGED <<posters, products, offers, orders, customers, carts, env,
                   requests>>
    /\ res' = Returned("ShoppingCart.clearCart", "")
    /\ shoppingCart' = <<>>

\* The loop of mergeCart: the quantity of a server item is added to the
\* entry of its pair, and the item is pushed as it is when there is none.
RECURSIVE MergeInto(_, _)
MergeInto(mergedCart, serverCart) ==
    IF serverCart = <<>> THEN mergedCart
    ELSE LET serverItem == Head(serverCart)
             existingIndex == FindCartItem(mergedCart, serverItem.product_id,
                                           serverItem.size)
         IN  MergeInto(
                IF existingIndex # 0
                THEN [mergedCart EXCEPT ![existingIndex].quantity =
                                            @ + serverItem.quantity]
                ELSE Append(mergedCart, serverItem),
                Tail(serverCart))

\* mergeCart: a serverCart that is no array (Absent) changes nothing.
MergeCart(serverCart) ==
    LET op == "ShoppingCart.mergeCart"
        mergedCart == MergeInto(shoppingCart, serverCart[1])
    IN  /\ serverCart # Absent
           => \A i \in 1..Len(mergedCart) :
                /\ mergedCart[i].quantity <= MaxQuantity
                /\ mergedCart[i].quantity >= -MaxQuantity
        /\ UNCHANGED <<posters, products, offers, orders, customers, carts, env,
                       requests>>
        /\ res' = Returned(op, "")
        /\ shoppingCart' = IF serverCart = Absent THEN shoppingCart
                           ELSE mergedCart

\* The products and sizes the client's calls name.
CartPairs ==
    { <<"poster-1", "M">>, <<"poster-1", "L">>, <<"polaroid-1", "M">> }

\* The carts the server answers with: none, empty, one entry, the same pair
\* twice, and entries whose quantity is 0 or below.
ServerCarts ==
    { Absent, Some(<<>>) }
    \cup { Some(<<[product_id |-> "poster-1", size |-> "M", quantity |-> q]>>) :
            q \in {1, 0, -1} }
    \cup { Some(<<[product_id |-> "poster-1", size |-> "L", quantity |-> 1],
                  [product_id |-> "poster-1", size |-> "L", quantity |-> 1]>>) }

NextCart ==
    \/ \E pair \in CartPairs, quantity \in Quantities,
          title \in {Absent, Some("Poster")} :
            AddItem(pair[1], title, pair[2], quantity, Some(Rupees(300)))
    \/ \E pair \in CartPairs, quantity \in Quantities :
            UpdateItemQuantity(pair[1], pair[2], quantity)
    \/ \E pair \in CartPairs : RemoveItem(pair[1], pair[2])
    \/ ClearCart
    \/ \E serverCart \in ServerCarts : MergeCart(serverCart)

SpecCart == InitShop /\ [][NextCart]_vars

-----------------------------------------------------------------------------
(* The older server (src/server.js): the GET routes below /api/products.
   Express runs the handler of the first route registered whose pattern
   matches the path; both handlers answer, so no later route is tried. *)

\* A path and a route pattern are the sequence of their segments.
SearchPath == <<"api", "products", "search">>

\* The routes in the order of their registration.
GetRoutes == << <<"api", "products", ":id">>, SearchPath >>

\* The pattern matches the path: segment by segment, a parameter matching
\* any segment.
RouteMatches(pattern, path) ==
    /\ Len(pattern) = Len(path)
    /\ \A i \in 1..Len(pattern) : pattern[i] = ":id" \/ pattern[i] = path[i]

\* The route that handles the path: 0 when none matches.
Dispatch(path) ==
    LET hits == { r \in 1..Len(GetRoutes) : RouteMatches(GetRoutes[r], path) }
    IN  IF hits = {} THEN 0 ELSE MinOf(hits)

\* GET /api/products/:id
GetProductById(id) ==
    LET op == "GET /api/products/:id"
        productIndex == FindProductIndex(products, id)
    IN  IF productIndex = 0 THEN Response(op, 404, "Product not found")
        ELSE Spread(Response(op, 200, ""), [product |-> products[productIndex]])

\* title.toLowerCase().includes(searchTerm), for the titles and the terms
\* of the model. Descriptions and tags are empty and match no term.
TitleIncludes(title, searchTerm) ==
    <<title, searchTerm>> \in
        { <<"Poster", "poster">>, <<"Poster", "post">>,
          <<"Polaroid", "polaroid">>, <<"Search", "search">> }

\* size.toUpperCase()
ToUpperCase(size) ==
    CASE size = "m" -> "M" [] size = "l" -> "L" [] OTHER -> size

\* GET /api/products/search: the filters by term, category and size in
\* stock, the first 50 of the matches and their number.
GetProductsSearch(query) ==
    LET op == "GET /api/products/search"
        sizeKey == ToUpperCase(query.size[1])
        byTerm == IF TruthyStr(query.q)
                  THEN SelectSeq(products, LAMBDA p :
                            TitleIncludes(p.title, ToLowerCase(query.q[1])))
                  ELSE products
        byCategory == IF TruthyStr(query.category)
                      THEN SelectSeq(byTerm, LAMBDA p :
                                p.category = query.category[1])
                      ELSE byTerm
        bySize == IF TruthyStr(query.size) /\ sizeKey \in {"M", "L", "XL"}
                  THEN SelectSeq(byCategory, LAMBDA p :
                            /\ HasPrice(p, sizeKey)
                            /\ sizeKey \in DOMAIN p.stock
                            /\ p.stock[sizeKey] > 0)
                  ELSE byCategory
    IN  Spread(Response(op, 200, ""),
               [products |-> SubSeq(bySize, 1, MinOf({50, Len(bySize)})),
                total |-> Len(bySize)])

\* A GET request below /api/products/.
Get(path, query) ==
    LET route == Dispatch(path)
    IN  /\ route # 0
        /\ UNCHANGED <<posters, products, offers, orders, customers, carts, env,
                       requests, shoppingCart>>
        /\ res' = IF route = 1 THEN GetProductById(path[3])
                  ELSE GetProductsSearch(query)

\* The products the file may hold: those of the catalogue, out of stock or
\* not, and one whose id is the word search.
SearchProducts ==
    { Spread(Catalogue[1], [category |-> "abstract"]),
      Spread([Catalogue[1] EXCEPT !.stock.M = 0], [category |-> "abstract"]),
      Spread(Catalogue[2], [category |-> "photo"]),
      Spread([Catalogue[2] EXCEPT !.stock.M = 0], [category |-> "photo"]),
      Spread([Catalogue[1] EXCEPT !.id = "search", !.title = "Search"],
             [category |-> "abstract"]) }

\* The catalogues: up to MaxProducts of these products, no id twice.
SearchCatalogues ==
    { list \in UNION { [1..n -> SearchProducts] : n \in 0..MaxProducts } :
        \A i, j \in 1..Len(list) : list[i].id = list[j].id => i = j }

SearchQueriesSent ==
    { [q |-> q, category |-> c, size |-> sz] :
        q \in {Absent, Some("poster"), Some("zzz")},
        c \in {Absent, Some("photo")},
        sz \in {Absent, Some("m"), Some("XS")} }

GetRequests ==
    { [path |-> path, query |-> query] :
        path \in {SearchPath, <<"api", "products", "poster-1">>,
                  <<"api", "products", "polaroid-1">>},
        query \in SearchQueriesSent }

InitServerJs ==
    /\ posters = InitialPosters
    /\ carts = NoCarts
    /\ products \in SearchCatalogues
    /\ offers = <<OfferPool[1]>>
    /\ orders = <<>>
    /\ customers = <<>>
    /\ env = EnvAll
    /\ res = InitialResult
    /\ requests = NoRequests
    /\ shoppingCart = <<>>

NextServerJs == \E req \in GetRequests : Get(req.path, req.query)

SpecServerJs == InitServerJs /\ [][NextServerJs]_vars

-----------------------------------------------------------------------------
(* Properties of the pricing calculator *)

RECURSIVE SeqSum(_)
SeqSum(ns) == IF ns = <<>> THEN 0 ELSE ns[1] + SeqSum(Tail(ns))

\* The calculator returned (it did not throw).
Priced == res.op = "calculateCartTotals" /\ res.result.thrown = ""

\* The price the products file gives for a product id and a size.
PriceOf(id, size) ==
    (CHOOSE p \in { products[i] : i \in 1..Len(products) } : p.id = id).price[size]

\* t.total is subtotal - discount + shipping, or 0 when that is negative.
TotalIsClamped(t) ==
    LET due == t.subtotal - t.discount + t.shipping
    IN  /\ t.total = (IF due < 0 THEN 0 ELSE due)
        /\ t.total >= 0

\* C1: every result of the calculator and every order stored by
\* POST /api/orders has total = max(subtotal - discount + shipping, 0), and
\* so a total that is never negative.
C1_TotalIsClampedSum ==
    /\ Priced => TotalIsClamped(res.result)
    /\ \A i \in 1..Len(orders) : TotalIsClamped(orders[i])

\* C1, witness: a stored order whose two stacked offers exceed subtotal plus
\* shipping, with total 0.
C1_Witness ==
    /\ orders # <<>>
    /\ Len(orders[1].offers_applied) = 2
    /\ orders[1].discount > orders[1].subtotal + orders[1].shipping
    /\ orders[1].total = 0

\* C2: for line items that all resolve the calculator returns one enriched
\* item per input item, in order, with unit_price the product's price for the
\* size, line_total = unit_price * quantity (the quantity of the request when
\* it is at least 1), and subtotal the sum of the line totals.
C2_LineTotalsAndSubtotal ==
    Priced =>
        LET in == res.args
            out == res.result.items
        IN  /\ Len(out) = Len(in)
            /\ \A i \in 1..Len(in) :
                /\ out[i].product_id = in[i].product_id
                /\ out[i].size = in[i].size
                /\ out[i].unit_price = PriceOf(in[i].product_id, in[i].size)
                /\ in[i].quantity >= 1 => out[i].quantity = in[i].quantity
                /\ out[i].line_total = out[i].unit_price * out[i].quantity
            /\ res.result.subtotal =
                    SeqSum([i \in 1..Len(out) |-> out[i].line_total])

\* C2, witness: two line items of different products, one with quantity 2.
C2_Witness ==
    /\ Priced
    /\ Len(res.args) = 2
    /\ res.args[1].product_id # res.args[2].product_id
    /\ res.args[1].quantity = 2
    /\ res.result.subtotal = res.result.items[1].line_total
                                + res.result.items[2].line_total

\* C3: shipping is 0 exactly when the subtotal (before discount) is at least
\* 999, and is the flat fee 79 for every smaller subtotal.
C3_FreeShippingFrom999 ==
    Priced =>
        /\ res.result.shipping = 0 <=> res.result.subtotal >= Rupees(999)
        /\ res.result.subtotal < Rupees(999) => res.result.shipping = Rupees(79)

\* C3, witness: a subtotal of exactly 999 that ships free although its
\* discount brings the amount due below 999.
C3_Witness ==
    /\ Priced
    /\ res.result.subtotal = Rupees(999)
    /\ res.result.discount > 0
    /\ res.result.shipping = 0

\* What the claim says one offer contributes at a subtotal.
Contribution(offer, subtotal) ==
    IF offer.active /\ offer.minSubtotal <= subtotal
    THEN CASE offer.type = "percentage" -> (subtotal * offer.value) \div 100
           [] offer.type = "flat" -> offer.value
           [] OTHER -> 0
    ELSE 0

\* C4: the discount is the sum, over the active offers whose minSubtotal is
\* at most the subtotal, of subtotal * value / 100 (percentage) or value
\* (flat); the other offers add nothing. Example: subtotal 600 with the flat
\* offer of 50 from 500 gives discount 50, shipping 79, total 629.
C4_DiscountIsSumOfQualifyingOffers ==
    Priced =>
        /\ res.result.discount =
            SeqSum([i \in 1..Len(offers) |->
                        Contribution(offers[i], res.result.subtotal)])
        /\ ( /\ res.args = <<[product_id |-> "poster-1", size |-> "M",
                              quantity |-> 2]>>
             /\ Len(offers) = 1
             /\ offers[1].id = "FLAT50" )
           => /\ res.result.subtotal = Rupees(600)
              /\ res.result.discount = Rupees(50)
              /\ res.result.shipping = Rupees(79)
              /\ res.result.total = Rupees(629)

\* C4, witness: two offers that both contribute, next to a cart for which an
\* active offer's minSubtotal is not met.
C4_Witness ==
    /\ Priced
    /\ Len(offers) = 2
    /\ Contribution(offers[1], res.result.subtotal) > 0
    /\ Contribution(offers[2], res.result.subtotal) > 0
    /\ res.result.discount = Contribution(offers[1], res.result.subtotal)
                                + Contribution(offers[2], res.result.subtotal)
    /\ res.result.subtotal < Rupees(1000)

\* The ids of the offers that were applied at a subtotal: active, condition
\* met.
AppliedOfferIds(subtotal) ==
    LET applied == SelectSeq(offers,
                        LAMBDA o : o.active /\ o.minSubtotal <= subtotal)
    IN  [i \in 1..Len(applied) |-> applied[i].id]

\* C5: the offers the calculator returns, and the offers_applied of a stored
\* order, are exactly the offers that were applied: an active offer whose
\* minSubtotal is not met by the subtotal is not among them.
C5_ReturnedOffersAreTheAppliedOnes ==
    /\ Priced =>
        [i \in 1..Len(res.result.offers) |-> res.result.offers[i].id]
            = AppliedOfferIds(res.result.subtotal)
    /\ \A k \in 1..Len(orders) :
        [i \in 1..Len(orders[k].offers_applied) |->
                orders[k].offers_applied[i].id]
            = AppliedOfferIds(orders[k].subtotal)

-----------------------------------------------------------------------------
(* Properties of the payment handlers *)

\* The signature a webhook request carries verifies against its body with
\* the configured merchant key.
Verifies(req) ==
    LET sent == WebhookSignature(req)
    IN  /\ env.PAYTM_MERCHANT_KEY # ""
        /\ sent # Absent
        /\ sent[1].signed = req.body
        /\ sent[1].key = env.PAYTM_MERCHANT_KEY

\* C6: a webhook call whose signature is missing or does not verify against
\* the body with the configured merchant key is answered 400 'Invalid
\* signature', and the orders are the same after the call as before it.
C6_InvalidSignatureChangesNothing ==
    [][\A req \in WebhookRequests :
        (~Verifies(req) /\ PaytmWebhook(req, WorldOk))
            => /\ res'.status = 400
               /\ res'.error = "Invalid signature"
               /\ orders' = orders]_vars

\* C6, witness: a webhook was refused for its signature while the first
\* order, which it named, was still unpaid.
C6_Witness ==
    /\ res.op = "POST /payments/paytm/webhook"
    /\ res.error = "Invalid signature"
    /\ env.PAYTM_MERCHANT_KEY # ""
    /\ Len(orders) = 2
    /\ orders[1].payment_status = "pending"

-----------------------------------------------------------------------------
(* Properties of order creation *)

\* The payment method of a checkout request is none of upi, paytm, cod.
MethodNotOffered(body) == body.paymentMethod \notin {"upi", "paytm", "cod"}

\* A checkout request lacks a required customer field, a required field of
\* the shipping address, or has no line item.
LacksRequired(body) ==
    \/ body.customer = Absent
    \/ body.shippingAddress = Absent
    \/ body.items = <<>>
    \/ \E f \in {"firstName", "lastName", "email", "phone"} :
            body.customer[1][f] = ""
    \/ \E f \in {"line1", "city", "state", "pincode"} :
            body.shippingAddress[1][f] = ""

\* A line item names a product id that no product has, or a size that is
\* not in the product's price map.
Unresolvable(item) ==
    ~ \E i \in 1..Len(products) :
        /\ products[i].id = item.product_id
        /\ item.size \in DOMAIN products[i].price

HasUnresolvable(body) ==
    \E i \in 1..Len(body.items) : Unresolvable(body.items[i])

\* C7: a checkout whose payment method is not upi, paytm or cod (razorpay
\* and bank_transfer among them), or that lacks a required field or has no
\* item, is answered 400 and leaves orders, customers and products as they
\* were.
C7_InvalidCheckoutIsRejectedBeforePersistence ==
    [][\A body \in OrderBodies, world \in Worlds :
        ((MethodNotOffered(body) \/ LacksRequired(body))
            /\ PostOrders(body, world))
            => /\ res'.status = 400
               /\ UNCHANGED <<orders, customers, products>>]_vars

\* C7, witness: a checkout was refused for its payment method after an
\* order and its customer had been stored.
C7_Witness ==
    /\ res.op = "POST /api/orders"
    /\ res.status = 400
    /\ res.error = "Invalid payment method"
    /\ Len(orders) = 1
    /\ Len(customers) = 1

\* C8: a checkout with a line item whose product id or size does not
\* resolve fails, and stores no order and no customer, also when line items
\* before it resolve.
C8_UnresolvableItemStoresNothing ==
    [][\A body \in OrderBodies, world \in Worlds :
        (HasUnresolvable(body) /\ PostOrders(body, world))
            => /\ res'.status >= 400
               /\ UNCHANGED <<orders, customers>>]_vars

\* C8, witness: the calculator failed for a checkout that was valid
\* otherwise, while an order was in the file.
C8_Witness ==
    /\ res.op = "POST /api/orders"
    /\ res.status = 500
    /\ res.error = "Unable to create order"
    /\ Len(orders) = 1

\* C9: when the calculator fails during a checkout the answer is a 400 that
\* names the calculator's error, invalid product or invalid size.
C9_CalculatorErrorIsReported ==
    [][\A body \in OrderBodies, world \in Worlds :
        (~MethodNotOffered(body) /\ ~LacksRequired(body)
            /\ HasUnresolvable(body) /\ PostOrders(body, world))
            => /\ res'.status = 400
               /\ res'.error \in {"Invalid product", "Invalid size"}]_vars

-----------------------------------------------------------------------------
(* Properties of the UPI confirmation *)

\* What a UPI confirmation that names an order and a transaction id does,
\* with PaidAmount(body, order) the paid amount it is to record: the first
\* order with the id becomes paid and confirmed and carries the transaction
\* id and the paid amount, whatever it was before, and every other order is
\* as it was.
UpiConfirmationRecords(PaidAmount(_, _)) ==
    res'.op = "POST /payments/upi/confirm" =>
        \A body \in UpiBodies :
            ( /\ body.orderId # Absent
              /\ body.transactionId # Absent
              /\ \E i \in 1..Len(orders) : orders[i].id = body.orderId[1]
              /\ UpiConfirm(body, WorldOk) )
            => LET k == MinOf({ i \in 1..Len(orders) :
                                    orders[i].id = body.orderId[1] })
               IN  /\ Len(orders') = Len(orders)
                   /\ orders'[k].payment_status = "paid"
                   /\ orders'[k].status = "confirmed"
                   /\ orders'[k].upi_transaction_id = body.transactionId
                   /\ orders'[k].paid_amount = PaidAmount(body, orders[k])
                   /\ orders'[k].id = orders[k].id
                   /\ \A j \in 1..Len(orders) : j # k => orders'[j] = orders[j]

\* C10 as stated: the paid amount is the amount supplied, and the order's
\* total when none is supplied.
C10_UpiConfirmRecordsSuppliedAmount ==
    [][UpiConfirmationRecords(
        LAMBDA body, order :
            IF body.amount # Absent THEN body.amount ELSE Some(order.total))]_vars

\* C10, amended: the paid amount is the amount supplied when that is not 0,
\* and the order's total when none is supplied or the one supplied is 0.
C10_UpiConfirmRecordsAmountOrTotal ==
    [][UpiConfirmationRecords(
        LAMBDA body, order :
            IF body.amount # Absent /\ body.amount[1] # 0
            THEN body.amount ELSE Some(order.total))]_vars

\* C10, witness: the first order, which the gateway had reported failed, is
\* confirmed with its total as the paid amount, and the second order is as
\* it was created.
C10_Witness ==
    /\ res.op = "POST /payments/upi/confirm"
    /\ res.status = 200
    /\ Len(orders) = 2
    /\ orders[1].status = "confirmed"
    /\ orders[1].payment_status = "paid"
    /\ orders[1].upi_transaction_id = Some("UPI-TXN-1")
    /\ orders[1].paid_amount = Some(orders[1].total)
    /\ orders[1].paytm_response # Absent
    /\ orders[1].paytm_response[1].resultStatus = Some("TXN_FAILURE")
    /\ orders[2].status = "pending"
    /\ orders[2].paid_amount = Absent

-----------------------------------------------------------------------------
(* Properties of the gateway's webhook and of the updates by id *)

\* The position of the order a request names, 0 when no order has the id.
Named(orderId) ==
    IF orderId = Absent \/ ~ \E i \in 1..Len(orders) : orders[i].id = orderId[1]
    THEN 0
    ELSE MinOf({ i \in 1..Len(orders) : orders[i].id = orderId[1] })

\* C11: a webhook whose signature verifies, for an order of the file, stores
\* the provider's body on the order, and sets status confirmed and
\* payment_status paid for TXN_SUCCESS, status failed and payment_status
\* failed for TXN_FAILURE.
C11_WebhookMapsResultCode ==
    [][\A req \in WebhookRequests :
        (Verifies(req) /\ Named(req.body.orderId) # 0
            /\ PaytmWebhook(req, WorldOk))
        => LET k == Named(req.body.orderId)
               code == req.body.resultStatus
           IN  /\ orders'[k].paytm_response = Some(req.body)
               /\ code = Some("TXN_SUCCESS") =>
                    /\ orders'[k].status = "confirmed"
                    /\ orders'[k].payment_status = "paid"
               /\ code = Some("TXN_FAILURE") =>
                    /\ orders'[k].status = "failed"
                    /\ orders'[k].payment_status = "failed"]_vars

\* C12: a webhook whose signature verifies and whose result code is PENDING
\* leaves the order's status and payment_status as they were.
C12_PendingChangesNoStatus ==
    [][\A req \in WebhookRequests :
        (Verifies(req) /\ Named(req.body.orderId) # 0
            /\ req.body.resultStatus = Some("PENDING")
            /\ PaytmWebhook(req, WorldOk))
        => LET k == Named(req.body.orderId)
           IN  /\ orders'[k].status = orders[k].status
               /\ orders'[k].payment_status = orders[k].payment_status]_vars

\* C13: every order carries the id it was created with, after any admin
\* updates, UPI confirmations and webhooks.
C13_OrderIdsNeverChange ==
    \A i \in 1..Len(orders) : orders[i].id = OrderIdPool[i]

\* C14: an admin update, a UPI confirmation or a verified webhook that names
\* an order id no order has is answered 404 and leaves the orders as they
\* were.
C14_UnknownOrderIs404 ==
    [][ /\ \A req \in PutRequests :
            (req.key = Some(env.ADMIN_API_KEY) /\ Named(Some(req.id)) = 0
                /\ PutOrder(req, WorldOk))
            => res'.status = 404 /\ orders' = orders
        /\ \A body \in UpiBodies :
            (body.orderId # Absent /\ body.transactionId # Absent
                /\ Named(body.orderId) = 0 /\ UpiConfirm(body, WorldOk))
            => res'.status = 404 /\ orders' = orders
        /\ \A req \in WebhookRequests :
            (Verifies(req) /\ req.body.orderId # Absent
                /\ Named(req.body.orderId) = 0 /\ PaytmWebhook(req, WorldOk))
            => res'.status = 404 /\ orders' = orders ]_vars

-----------------------------------------------------------------------------
(* Properties of the admin key *)

\* The x-api-key header is missing or is not the configured admin key.
Unauthorised(key) == key = Absent \/ key[1] # env.ADMIN_API_KEY

\* The request is answered 401 and posters, products and orders stay as
\* they were.
Refused == res'.status = 401 /\ UNCHANGED <<posters, products, orders>>

\* C15: every endpoint behind the admin key answers a request whose
\* x-api-key is missing or differs from the configured key with 401, and
\* changes none of posters, products and orders.
C15_AdminEndpointsRefuseWithoutKey ==
    [][ /\ res'.op = "POST /api/posters" =>
            \A req \in AdminPosterRequests :
                (Unauthorised(req.apiKey) /\ PostPosters(req, WorldOk))
                    => Refused
        /\ res'.op = "DELETE /api/posters" =>
            \A req \in AdminPosterRequests :
                (Unauthorised(req.apiKey) /\ DeletePosters(req, WorldOk))
                    => Refused
        /\ res'.op = "POST /api/products" =>
            \A req \in ProductCreates, now \in ClockReadings :
                (Unauthorised(req.apiKey) /\ PostProducts(req, now, WorldOk))
                    => Refused
        /\ res'.op = "PUT /api/products/:id" =>
            \A req \in ProductUpdates :
                (Unauthorised(req.apiKey) /\ PutProducts(req, WorldOk))
                    => Refused
        /\ res'.op = "DELETE /api/products/:id" =>
            \A req \in ProductDeletes :
                (Unauthorised(req.apiKey) /\ DeleteProducts(req, WorldOk))
                    => Refused
        /\ res'.op = "GET /api/orders" =>
            \A req \in OrderListRequests :
                (Unauthorised(req.apiKey) /\ GetOrders(req)) => Refused
        /\ res'.op = "PUT /api/orders/:id" =>
            \A req \in OrderUpdates :
                (Unauthorised(req.key) /\ PutOrder(req, WorldOk)) => Refused
      ]_vars

\* C15, witness: under a key of its own, a product delete was refused after
\* the admin had changed the posters and the products.
C15_Witness ==
    /\ res.op = "DELETE /api/products/:id"
    /\ res.status = 401
    /\ env.ADMIN_API_KEY = "s3cret"
    /\ Len(products) = MaxProducts
    /\ posters # InitialPosters

-----------------------------------------------------------------------------
(* Properties of order creation: the gateway, the files, the customers *)

\* The checkout passes every check of the handler and its cart resolves.
Acceptable(body) ==
    ~MethodNotOffered(body) /\ ~LacksRequired(body) /\ ~HasUnresolvable(body)

\* C16: when the Paytm gateway refuses the transaction of a paytm checkout,
\* the answer is 502 with no payment payload, and the order stays stored as
\* the last of the file, pending and with no Paytm transaction.
C16_PaytmFailureKeepsPendingOrder ==
    [][\A body \in OrderBodies, world \in Worlds :
        ( /\ Acceptable(body)
          /\ body.paymentMethod = "paytm"
          /\ env.PAYTM_MID # "" /\ env.PAYTM_MERCHANT_KEY # ""
          /\ world.gateway # "S"
          /\ PostOrders(body, world) )
        => /\ res'.status = 502
           /\ res'.payment = Absent
           /\ Len(orders') = Len(orders) + 1
           /\ SubSeq(orders', 1, Len(orders)) = orders
           /\ LET stored == orders'[Len(orders')]
              IN  /\ stored.payment_method = "paytm"
                  /\ stored.status = "pending"
                  /\ stored.payment_status = "pending"
                  /\ stored.paytm_transaction_id = Absent
                  /\ stored.paytm_response = Absent
                  /\ stored.paid_amount = Absent]_vars

\* C16, witness: a paytm checkout was answered 502 and its order is the
\* second of the file.
C16_Witness ==
    /\ res.op = "POST /api/orders"
    /\ res.status = 502
    /\ Len(orders) = 2
    /\ orders[2].payment_method = "paytm"
    /\ orders[2].payment_status = "pending"

\* C17: a mutating request during which the write of a file fails is
\* answered 500: an order creation, an update by id, a UPI confirmation, a
\* webhook, a cart save, and the append of a customer.
C17_FailedWriteIs500 ==
    [][\A world \in StorageWorlds :
        /\ \A body \in PaymentBodies :
            ( /\ \/ ~world.saved
                 \/ /\ ~world.savedCustomers
                    /\ \A i \in 1..Len(customers) :
                        customers[i].email # body.customer[1].email
              /\ PostOrders(body, world) )
            => res'.status = 500
        /\ \A req \in StoragePuts :
            (~world.saved /\ Named(Some(req.id)) # 0 /\ PutOrder(req, world))
            => res'.status = 500
        /\ \A body \in StorageUpiBodies :
            (~world.saved /\ Named(body.orderId) # 0 /\ UpiConfirm(body, world))
            => res'.status = 500
        /\ \A req \in StorageWebhooks :
            (~world.saved /\ Verifies(req) /\ Named(req.body.orderId) # 0
                /\ PaytmWebhook(req, world))
            => res'.status = 500
        /\ \A req \in CartRequests :
            (~world.saved /\ req.cart # Absent /\ PostCart(req, world))
            => res'.status = 500 ]_vars

\* C18: the customers file holds at most one record for an email; a stored
\* order appends one customer when its email is not in the file, and
\* leaves the file as it was when it is.
C18_OneCustomerPerEmail ==
    [][ /\ \A i, j \in 1..Len(customers') :
            customers'[i].email = customers'[j].email => i = j
        /\ Len(orders') = Len(orders) + 1 =>
            \A body \in OrderBodies, world \in Worlds :
                PostOrders(body, world) =>
                    LET email == body.customer[1].email
                    IN  IF \E i \in 1..Len(customers) : customers[i].email = email
                        THEN customers' = customers
                        ELSE /\ Len(customers') = Len(customers) + 1
                             /\ SubSeq(customers', 1, Len(customers)) = customers
                             /\ customers'[Len(customers')].email = email ]_vars

\* C18, witness: two orders of one email are stored and the customers file
\* holds one record.
C18_Witness ==
    /\ Len(orders) = 2
    /\ orders[1].customer.email = orders[2].customer.email
    /\ Len(customers) = 1
    /\ customers[1].email = orders[1].customer.email

-----------------------------------------------------------------------------
(* Properties of the posters list *)

\* The key of a request is a numeral, and the number it reads as.
NumericKey(key) == key # Absent /\ key[1] \in {"1", "7", "8", "42"}

KeyNumber(key) == Some(Numerals[key[1]])

\* i is the position, counted from 0, of the first occurrence of k in list,
\* and -1 when k does not occur.
IsFirstIndex(list, k, i) ==
    IF \E j \in 1..Len(list) : list[j] = k
    THEN /\ i + 1 \in 1..Len(list)
         /\ list[i + 1] = k
         /\ \A j \in 1..i : list[j] # k
    ELSE i = -1

\* C19: a search for a numeric key answers the position of its first
\* occurrence in the posters list, -1 when it is not in the list (in
\* [1,3,5,4,7,9], 4 for 7 and -1 for 42), and leaves the list as it was.
C19_SearchGivesFirstIndex ==
    [][res'.op = "GET /api/search" =>
        \A query \in SearchQueries :
            (NumericKey(query.key) /\ GetSearch(query))
            => /\ res'.status = 200
               /\ IsFirstIndex(posters, KeyNumber(query.key), res'.index)
               /\ posters' = posters
               /\ posters = Numbers(<<1, 3, 5, 4, 7, 9>>) =>
                    /\ query.key = Some("7") => res'.index = 4
                    /\ query.key = Some("42") => res'.index = -1 ]_vars

\* C19, witness: 7 was searched in a list that holds it twice, and its
\* first position was answered.
C19_Witness ==
    /\ res.op = "GET /api/search"
    /\ res.status = 200
    /\ res.index = 4
    /\ posters = Numbers(<<1, 3, 5, 4, 7, 9, 7>>)

\* The elements of list other than k, in their order.
RECURSIVE Others(_, _)
Others(list, k) ==
    IF list = <<>> THEN <<>>
    ELSE IF Head(list) = k THEN Others(Tail(list), k)
    ELSE <<Head(list)>> \o Others(Tail(list), k)

\* C20: with the admin key, adding a numeric key k answers 200 and the
\* list with k appended, and deleting k answers 200 and the list without
\* any k, its other elements in their order; each answer is the list that
\* is stored.
C20_PosterAddThenDelete ==
    [][ /\ res'.op = "POST /api/posters" =>
            \A req \in PosterRequests :
                ( /\ req.apiKey = Some(env.ADMIN_API_KEY)
                  /\ NumericKey(req.key)
                  /\ PostPosters(req, WorldOk) )
                => /\ res'.status = 200
                   /\ res'.list = Append(posters, KeyNumber(req.key))
                   /\ \E i \in 1..Len(res'.list) :
                        res'.list[i] = KeyNumber(req.key)
                   /\ posters' = res'.list
        /\ res'.op = "DELETE /api/posters" =>
            \A req \in PosterRequests :
                ( /\ req.apiKey = Some(env.ADMIN_API_KEY)
                  /\ NumericKey(req.key)
                  /\ DeletePosters(req, WorldOk) )
                => /\ res'.status = 200
                   /\ \A i \in 1..Len(res'.list) :
                        res'.list[i] # KeyNumber(req.key)
                   /\ res'.list = Others(posters, KeyNumber(req.key))
                   /\ posters' = res'.list ]_vars

\* C20, witness: 8 was added to the list and 7 was then deleted from it.
C20_Witness ==
    /\ res.op = "DELETE /api/posters"
    /\ res.status = 200
    /\ res.list = Numbers(<<1, 3, 5, 4, 9, 8>>)
    /\ posters = res.list

-----------------------------------------------------------------------------
(* Properties of the configuration, the vocabulary and the catalogue *)

\* C21: a checkout that passes the handler's checks is answered 201 when
\* the payment configuration is missing: with no UPI payee id a upi order
\* carries an empty upiLink and an empty qrCode, and with no Paytm merchant
\* id or key a paytm order carries the mock payload, whose token is made of
\* the id of the order just stored.
C21_MissingConfigIsNoError ==
    [][\A body \in OrderBodies, world \in Worlds :
        ( /\ Acceptable(body)
          /\ PostOrders(body, world) )
        => /\ ( body.paymentMethod = "upi" /\ env.UPI_VPA = "" )
              => /\ res'.status = 201
                 /\ res'.payment = Some([upiLink |-> Absent, qrCode |-> Absent])
                 /\ Len(orders') = Len(orders) + 1
           /\ ( /\ body.paymentMethod = "paytm"
                /\ (env.PAYTM_MID = "" \/ env.PAYTM_MERCHANT_KEY = "") )
              => /\ res'.status = 201
                 /\ Len(orders') = Len(orders) + 1
                 /\ res'.payment # Absent
                 /\ res'.payment[1].mode = "mock"
                 /\ res'.payment[1].txnToken =
                        <<"mock-token", orders'[Len(orders')].id>>]_vars

\* A paytm order was stored with no Paytm configuration and answered with
\* the mock payload.
C21_Witness ==
    /\ res.op = "POST /api/orders"
    /\ res.status = 201
    /\ env.PAYTM_MID = ""
    /\ Len(orders) > 0
    /\ orders[Len(orders)].payment_method = "paytm"
    /\ res.payment # Absent
    /\ res.payment[1].mode = "mock"

\* The values the order fields are meant to take.
OrderStatuses ==
    {"pending", "confirmed", "processing", "shipped", "delivered",
     "cancelled", "failed"}

PaymentStatuses == {"pending", "paid", "failed", "refunded", "cod"}

\* C22: every stored order has a status among pending, confirmed,
\* processing, shipped, delivered, cancelled and failed, and a
\* payment_status among pending, paid, failed, refunded and cod.
C22_StatusVocabulary ==
    \A i \in 1..Len(orders) :
        /\ orders[i].status \in OrderStatuses
        /\ orders[i].payment_status \in PaymentStatuses

\* The answers of the three handlers that write the products file.
ProductWrites ==
    {"POST /api/products", "PUT /api/products/:id", "DELETE /api/products/:id"}

\* The answers of the checkout and of the handlers that write a payment.
OrderWrites ==
    {"POST /api/orders", "POST /payments/upi/confirm",
     "POST /payments/paytm/webhook", "POST /api/payment/verify",
     "PUT /api/orders/:id"}

\* C23: the products file changes only in a step of the admin's product
\* create, update or delete; the checkout and every payment handler leave
\* every product, its stock included, as it was.
C23_OnlyAdminWritesProducts ==
    [][ /\ products' # products => res'.op \in ProductWrites
        /\ res'.op \in OrderWrites => products' = products ]_vars

\* An order for two posters of size M was just stored, and the catalogue
\* still has the stock it started with.
C23_Witness ==
    /\ res.op = "POST /api/orders"
    /\ res.status = 201
    /\ Len(orders) > 0
    /\ orders[Len(orders)].items[1].product_id = "poster-1"
    /\ orders[Len(orders)].items[1].quantity = 2
    /\ products = Catalogue

\* No two products of the list have the same id.
UniqueIds(productList) ==
    \A i, j \in 1..Len(productList) :
        productList[i].id = productList[j].id => i = j

\* C24: product ids are unique before and after every step of the admin's
\* product create, update (with any body, one naming another id included)
\* and delete; and a create whose id, sent or generated, a product already
\* has is answered 400 and leaves the products as they were.
C24_ProductIdsAreUnique ==
    [][ /\ UniqueIds(products)
        /\ UniqueIds(products')
        /\ res'.op = "POST /api/products"
            => \A req \in ProductCreates, now \in ClockReadings :
                ( /\ IsAdmin(req.apiKey)
                  /\ req.body.title # Absent
                  /\ FindProductIndex(products,
                                      NewProduct(req.body, now).id) # 0
                  /\ PostProducts(req, now, WorldOk) )
                => /\ res'.status = 400
                   /\ res'.error = "Product with this ID already exists"
                   /\ products' = products ]_vars

\* A create was refused for its id while the catalogue holds a product
\* that an earlier create added.
C24_Witness ==
    /\ res.op = "POST /api/products"
    /\ res.error = "Product with this ID already exists"
    /\ Len(products) = MaxProducts

-----------------------------------------------------------------------------
(* Properties of quantities, payments and the poster keys *)

\* C25: every line of every stored order has a quantity of at least 1 and
\* a line total that is not negative, whatever quantity the request sent.
C25_StoredQuantitiesArePositive ==
    \A i \in 1..Len(orders) :
        \A k \in 1..Len(orders[i].items) :
            /\ orders[i].items[k].quantity >= 1
            /\ orders[i].items[k].line_total >= 0

\* The request of the client was answered 201.
Created(c) == requests[c].pc = "answered" /\ requests[c].status = 201

PaymentWrites ==
    {"POST /payments/upi/confirm", "POST /payments/paytm/webhook",
     "PUT /api/orders/:id"}

\* C27: an order becomes paid only in a step of the UPI confirmation, of
\* the Paytm webhook or of the admin's order update; no other request,
\* POST /api/payment/verify included, marks an order paid.
C27_PaidOnlyByPaymentHandlers ==
    [][\A i \in 1..Len(orders') :
        ( /\ orders'[i].payment_status = "paid"
          /\ i <= Len(orders) => orders[i].payment_status # "paid" )
        => res'.op \in PaymentWrites]_vars

\* C28: the stored posters list holds numbers only: no step, a POST
\* /api/posters with a key that is no number included, stores an element
\* that is not a number.
C28_PostersAreNumbers ==
    \A i \in 1..Len(posters) : posters[i] # Absent

-----------------------------------------------------------------------------
(* Properties of the browser's cart and of the older server *)

\* C29: after any calls of addItem, updateItemQuantity, removeItem,
\* mergeCart and clearCart, the cart holds at most one entry for a product
\* and size, and every entry has a quantity of at least 1.
C29_CartEntriesAreUniqueAndPositive ==
    /\ \A i, j \in 1..Len(shoppingCart) :
            ( /\ shoppingCart[i].product_id = shoppingCart[j].product_id
              /\ shoppingCart[i].size = shoppingCart[j].size ) => i = j
    /\ \A i \in 1..Len(shoppingCart) : shoppingCart[i].quantity >= 1

\* C30: a GET of /api/products/search is answered by the search handler,
\* with the first 50 of the products that match the term, the category and
\* the size in stock, and with their number as total.
C30_SearchIsAnsweredBySearchHandler ==
    [][\A req \in GetRequests :
        ( req.path = SearchPath /\ Get(req.path, req.query) )
        => res' = GetProductsSearch(req.query)]_vars

=============================================================================
